---- MODULE Spec2Model ----
(***************************************************************************)
(* A model of the bolts of geniusrise-ocr. The document readers (ParsePdf,  *)
(* ParsePostScript, ParseDjvu, ParseEpub, ParseXPS, ParseCBZCBR,           *)
(* ParseMOBI): one run of process() over an input folder, document by      *)
(* document. The OCR servers (DoctrImageOCRAPI, Pix2StructImageOCRAPI,     *)
(* TROCRImageOCRAPI): listen() and the ocr requests it then serves, each   *)
(* on a thread of its own. ImageClassPredictor: one run of predict().      *)
(*                                                                         *)
(* Strings are sequences of one-character strings, so that str.replace,    *)
(* str.endswith, str.lower and str.strip are computed as Python computes   *)
(* them.                                                                   *)
(***************************************************************************)
EXTENDS Integers, Sequences, FiniteSets, TLC

\* ------------------------------------------------------------------ bounds

\* Pages (items) of a document in the single-document specification.
MaxPages == 4
\* Files of the input folder in the batch specification.
MaxFiles == 2
\* Pages of a document in the batch specification.
MaxBatchPages == 1
\* Name parts appended to the stem of a filename in the naming specification.
MaxParts == 3
\* Images embedded in one XPS page.
MaxImgs == 2
\* Items of an EPUB in the specification of long books.
MaxItems == 11
\* Requests an OCR server takes.
MaxRequests == 2
\* The largest class index the classifier's model predicts.
MaxClass == 1

\* ------------------------------------------------------- Python's str type

Min(a, b) == IF a < b THEN a ELSE b

\* str.endswith(suffix)
endswith(s, suf) ==
    /\ Len(s) >= Len(suf)
    /\ SubSeq(s, Len(s) - Len(suf) + 1, Len(s)) = suf

\* The upper-case letters the model's filenames use, with their lower case.
UpperCase ==
    <<"A", "B", "C", "D", "E", "F", "G", "H", "I", "J", "K", "L", "M",
      "N", "O", "P", "Q", "R", "S", "T", "U", "V", "W", "X", "Y", "Z">>
LowerCase ==
    <<"a", "b", "c", "d", "e", "f", "g", "h", "i", "j", "k", "l", "m",
      "n", "o", "p", "q", "r", "s", "t", "u", "v", "w", "x", "y", "z">>

LowerChar(c) ==
    IF \E i \in DOMAIN UpperCase : UpperCase[i] = c
    THEN LowerCase[CHOOSE i \in DOMAIN UpperCase : UpperCase[i] = c]
    ELSE c

\* str.lower()
lower(s) == [i \in 1..Len(s) |-> LowerChar(s[i])]

\* s[i:] starts with old
StartsAt(s, i, old) ==
    /\ i + Len(old) - 1 <= Len(s)
    /\ SubSeq(s, i, i + Len(old) - 1) = old

RECURSIVE ReplaceFrom(_, _, _, _)
ReplaceFrom(s, i, old, new) ==
    IF i > Len(s) THEN <<>>
    ELSE IF StartsAt(s, i, old)
         THEN new \o ReplaceFrom(s, i + Len(old), old, new)
         ELSE <<s[i]>> \o ReplaceFrom(s, i + 1, old, new)

\* str.replace(old, new), old non-empty: every non-overlapping occurrence of
\* old, scanning from the left, is replaced.
replace(s, old, new) == ReplaceFrom(s, 1, old, new)

IsSpace(c) == c \in {" ", "\n", "\f"}

RECURSIVE lstrip(_)
lstrip(s) ==
    IF s # <<>> /\ IsSpace(Head(s)) THEN lstrip(Tail(s)) ELSE s

RECURSIVE rstrip(_)
rstrip(s) ==
    IF s # <<>> /\ IsSpace(s[Len(s)]) THEN rstrip(SubSeq(s, 1, Len(s) - 1)) ELSE s

\* str.strip()
strip(s) == rstrip(lstrip(s))

Digit(d) == <<"0", "1", "2", "3", "4", "5", "6", "7", "8", "9">>[d + 1]

\* str(n) of a natural number, as an f-string formats it
RECURSIVE str(_)
str(n) == IF n < 10 THEN <<Digit(n)>> ELSE str(n \div 10) \o <<Digit(n % 10)>>

\* os.path.join(folder, name)
join(folder, name) == folder \o <<"/">> \o name

\* os.path.basename(path): what follows the last "/"
RECURSIVE basename(_)
basename(path) ==
    IF \E i \in 1..Len(path) : path[i] = "/"
    THEN basename(Tail(path))
    ELSE path

\* ------------------------------------------------------------ the readers

\* The bolts of geniusrise_ocr/readers that walk an input folder.
Readers == {"pdf", "ps", "djvu", "epub", "xps", "cbz_cbr", "mobi"}

\* The readers that sample a document and route it to a text or image handler.
Classifying == {"pdf", "ps", "djvu", "epub"}

ExtPdf == <<".", "p", "d", "f">>
ExtPs == <<".", "p", "s">>
ExtDjvu == <<".", "d", "j", "v", "u">>
ExtEpub == <<".", "e", "p", "u", "b">>
ExtXps == <<".", "x", "p", "s">>
ExtOxps == <<".", "o", "x", "p", "s">>
ExtCbz == <<".", "c", "b", "z">>
ExtCbr == <<".", "c", "b", "r">>
ExtMobi == <<".", "m", "o", "b", "i">>
ExtJson == <<".", "j", "s", "o", "n">>
ExtPng == <<".", "p", "n", "g">>
ExtTxt == <<".", "t", "x", "t">>

\* The filter at the head of each reader's loop over os.listdir(input_folder).
Accepts(r, name) ==
    CASE r = "pdf" -> endswith(name, ExtPdf)
      [] r = "ps" -> endswith(name, ExtPs)
      [] r = "djvu" -> endswith(name, ExtDjvu)
      [] r = "epub" -> endswith(name, ExtEpub)
      [] r = "xps" -> endswith(lower(name), ExtXps) \/ endswith(lower(name), ExtOxps)
      [] r = "cbz_cbr" -> endswith(lower(name), ExtCbz) \/ endswith(lower(name), ExtCbr)
      [] r = "mobi" -> endswith(lower(name), ExtMobi)

\* The name of the JSON file a text handler writes for an input filename.
JsonName(r, name) ==
    CASE r = "pdf" -> replace(name, ExtPdf, ExtJson)
      [] r = "ps" -> replace(name, ExtPs, ExtJson)
      [] r = "djvu" -> replace(name, ExtDjvu, ExtJson)
      [] r = "epub" -> replace(name, ExtEpub, ExtJson)

\* The name of the directory an image handler makes for an input filename
\* (ParseCBZCBR takes the .cbz branch or the .cbr branch by the name's
\* lower-cased ending).
FolderName(r, name) ==
    CASE r = "pdf" -> replace(name, ExtPdf, <<>>)
      [] r = "ps" -> replace(name, ExtPs, <<>>)
      [] r = "djvu" -> replace(name, ExtDjvu, <<>>)
      [] r = "epub" -> replace(name, ExtEpub, <<>>)
      [] r = "xps" -> replace(replace(name, ExtXps, <<>>), ExtOxps, <<>>)
      [] r = "cbz_cbr" -> IF endswith(lower(name), ExtCbz)
                          THEN replace(name, ExtCbz, <<>>)
                          ELSE replace(name, ExtCbr, <<>>)
      [] r = "mobi" -> replace(name, ExtMobi, <<>>)

\* ParsePostScript: the path ps2pdf converts a PostScript file to.
PdfNameOfPs(name) == replace(name, ExtPs, ExtPdf)

\* -------------------------------------------------------------- documents

\* What the libraries report for a page or item of a document:
\*   kind  "page" (PDF, PostScript, DJVU, XPS), or the ebooklib item type
\*         "document" / "image" / "other" (EPUB), or "image" / "text" (an
\*         image of a MOBI book, a section of its text), or "member" (a
\*         member of a CBZ/CBR archive);
\*   ok    FALSE if extracting or rendering this page fails;
\*   text  the text extract_text / djvutxt / item.content yields, or the
\*         filename of an archive member;
\*   nimg  the number of images page.get_images lists (XPS).
Page(kind, ok, text, nimg) == [kind |-> kind, ok |-> ok, text |-> text, nimg |-> nimg]

\* Page texts: none, white space only, and text with white space around it.
PageTexts == {<<>>, <<" ">>, <<" ", "A">>}

JpgMember == <<"1", ".", "j", "p", "g">>
TxtMember == <<"n", ".", "t", "x", "t">>

\* The pages (items, members) a document of each format can hold.
PagesOf(r) ==
    CASE r \in {"pdf", "ps", "djvu"} ->
            {Page("page", TRUE, t, 0) : t \in PageTexts} \cup {Page("page", FALSE, <<>>, 0)}
      [] r = "epub" ->
            {Page("document", TRUE, <<" ", "A">>, 0), Page("image", TRUE, <<>>, 0),
             Page("other", TRUE, <<>>, 0)}
      [] r = "xps" -> {Page("page", TRUE, <<>>, n) : n \in 0..MaxImgs}
      [] r = "cbz_cbr" -> {Page("member", TRUE, JpgMember, 0), Page("member", TRUE, TxtMember, 0)}
      [] r = "mobi" -> {Page("image", TRUE, <<>>, 0), Page("text", TRUE, <<" ", "A">>, 0)}

SeqsUpTo(S, n) == UNION {[1..k -> S] : k \in 0..n}

\* A file that the library cannot open (or that ps2pdf cannot convert).
Malformed == [ok |-> FALSE, pages |-> <<>>]

\* The pages of the documents of the batch folders: pages of text or of none,
\* XPS pages of at most one image.
BatchPagesOf(r) == {p \in PagesOf(r) : p.text # <<" ">> /\ p.nimg <= 1}

\* k copies of the page p.
Repeat(p, k) == [i \in 1..k |-> p]

\* Long EPUB books: up to n items, the ITEM_DOCUMENT items before the
\* ITEM_IMAGE items or after them.
ItemDocs(n) ==
    LET d == Page("document", TRUE, <<" ", "A">>, 0)
        g == Page("image", TRUE, <<>>, 0)
    IN  {[ok |-> TRUE, pages |-> ps] :
            ps \in UNION {{Repeat(d, k) \o Repeat(g, m), Repeat(g, m) \o Repeat(d, k)} :
                            <<k, m>> \in {km \in (0..n) \X (0..n) : km[1] + km[2] <= n}}}

\* The documents of format r with at most n pages, in a folder of one of the
\* families "batch", "doc", "names", "items" (long EPUB books, and small
\* documents of the other formats) and "live" (documents of one page that has
\* text or an image).
Docs(family, r, n) ==
    {Malformed} \cup
    (IF family = "live"
     THEN {[ok |-> TRUE, pages |-> <<p>>] :
             p \in {q \in BatchPagesOf(r) : q.ok /\ (q.text # <<>> \/ q.nimg = 1)}}
     ELSE IF family = "items"
     THEN IF r = "epub" THEN ItemDocs(n)
          ELSE {[ok |-> TRUE, pages |-> ps] : ps \in SeqsUpTo(BatchPagesOf(r), MaxBatchPages)}
     ELSE {[ok |-> TRUE, pages |-> ps] :
             ps \in SeqsUpTo(IF family = "batch" THEN BatchPagesOf(r) ELSE PagesOf(r), n)})

\* -------------------------------------------------------------- the state

VARIABLES
    reader,        \* the bolt whose process(), listen() or predict() runs
    listing,       \* os.listdir(input_folder), evaluated once at the loop's start
    files,         \* the input folder: filename -> document
    idx,           \* how many entries of listing the loop has taken
    pc,            \* "loop" | "route" | "done" | "raised"; of a server "init" |
                   \* "serving"; of the predictor "init" | "loaded" | "loop" | ...
    total_pages,   \* process(): local total_pages
    sample_pages,  \* process(): local sample_pages
    text_count,    \* process(): local text_count
    image_count,   \* process(): local image_count
    inspected,     \* iterations of the classification loop run for the current file
    json,          \* the output folder's JSON files: filename -> list of strings
    dirs,          \* the output folder's directories: name -> set of filenames in it
    calls,         \* the handlers called so far: <<filename, handler>>
    log,           \* the "Processed ..." lines logged so far: <<filename, handler>>
    model,         \* a server's self.model: 0 if not set, else the object loaded
    processor,     \* a server's self.processor, likewise
    loads,         \* the objects from_pretrained / ocr_predictor have made so far
    requests,      \* a server's requests: id -> [pc, used], used the objects run
    classes,       \* the predictor's self.classes
    mounted,       \* the URL path a server's handlers are mounted at, <<>> before
    args,          \* the arguments of the call: output_format, dataset_format
    saved,         \* the output folder's image files: filename -> image format
    dataset,       \* a CustomOCRDataset: its image_paths and text_labels
    open_handles   \* the files opened by open() and not closed

vars == <<reader, listing, files, idx, pc, total_pages, sample_pages, text_count,
          image_count, inspected, json, dirs, calls, log,
          model, processor, loads, requests, classes,
          mounted, args, saved, dataset, open_handles>>

\* The state of ConvertImage and of CustomOCRDataset, which no other bolt
\* touches.
conv_vars == <<args, saved, dataset>>

\* The state of the servers and of the predictor, which no reader touches.
bolt_vars == <<model, processor, loads, requests, classes>>

\* The state of the readers' classification, which no other bolt touches.
classify_vars == <<total_pages, sample_pages, text_count, image_count, inspected>>

\* self.input.input_folder
input_folder == <<"i", "n">>

\* open(path) on the input folder
OpenPath(fs, path) == fs[basename(path)]

PathExists(fs, path) == basename(path) \in DOMAIN fs

\* ---------------------------------------------------------- classification

\* Mutant of SampleCap: two pages are sampled.
SampleCapTwo == 3 - 1

\* The entries of a dataset, at most.
MaxEntries == 2

\* The sample size cap of the PDF, PostScript and DJVU readers.
SampleCap == 3

\* Mutant of Samples: the pages are drawn with replacement.
SamplesWithReplacement(population, k) == [1..k -> population]

\* random.sample(population, k): every sequence of k distinct members.
Samples(population, k) ==
    {s \in [1..k -> population] : \A i, j \in 1..k : i # j => s[i] # s[j]}

\* range(total_pages) for PyPDF2's 0-based pages, range(1, total_pages + 1)
\* for the 1-based pages of djvutxt.
PageRange(r, total) == IF r = "djvu" THEN 1..total ELSE 0..(total - 1)

\* pdf_reader.pages[page_num] / pdf_reader.getPage(page_num) /
\* djvutxt --page page_num
PageAt(r, doc, page_num) ==
    IF r = "djvu" THEN doc.pages[page_num] ELSE doc.pages[page_num + 1]

\* Mutant of SampleLoop: the extracted text is tested without being stripped.
RECURSIVE SampleLoopNoStrip(_, _, _, _, _, _)
SampleLoopNoStrip(r, doc, sample, i, tc, ic) ==
    IF i > Len(sample)
    THEN [raised |-> FALSE, text_count |-> tc, image_count |-> ic, inspected |-> i - 1]
    ELSE IF ~PageAt(r, doc, sample[i]).ok
    THEN [raised |-> TRUE, text_count |-> tc, image_count |-> ic, inspected |-> i - 1]
    ELSE IF PageAt(r, doc, sample[i]).text # <<>>
    THEN SampleLoopNoStrip(r, doc, sample, i + 1, tc + 1, ic)
    ELSE SampleLoopNoStrip(r, doc, sample, i + 1, tc, ic + 1)

\* The loop over sample_pages from its i-th entry on, with text_count = tc and
\* image_count = ic so far: the text of each sampled page is extracted and
\* stripped, and the page counts as text if anything is left. Extraction of a
\* page that is not ok raises, which ends the loop.
RECURSIVE SampleLoop(_, _, _, _, _, _)
SampleLoop(r, doc, sample, i, tc, ic) ==
    IF i > Len(sample)
    THEN [raised |-> FALSE, text_count |-> tc, image_count |-> ic, inspected |-> i - 1]
    ELSE IF ~PageAt(r, doc, sample[i]).ok
    THEN [raised |-> TRUE, text_count |-> tc, image_count |-> ic, inspected |-> i - 1]
    ELSE IF strip(PageAt(r, doc, sample[i]).text) # <<>>
    THEN SampleLoop(r, doc, sample, i + 1, tc + 1, ic)
    ELSE SampleLoop(r, doc, sample, i + 1, tc, ic + 1)

\* ParseEpub samples the first ItemCap items of the book.
ItemCap == 10

\* Mutant of ItemLoop: the first three items are inspected.
RECURSIVE ItemLoopThree(_, _, _, _)
ItemLoopThree(items, i, tc, ic) ==
    IF i > Min(3, Len(items))
    THEN [raised |-> FALSE, text_count |-> tc, image_count |-> ic, inspected |-> i - 1]
    ELSE IF items[i].kind = "document" THEN ItemLoopThree(items, i + 1, tc + 1, ic)
    ELSE IF items[i].kind = "image" THEN ItemLoopThree(items, i + 1, tc, ic + 1)
    ELSE ItemLoopThree(items, i + 1, tc, ic)

\* Mutant of ItemLoop: an item that is no document counts as image.
RECURSIVE ItemLoopElse(_, _, _, _)
ItemLoopElse(items, i, tc, ic) ==
    IF i > Min(ItemCap, Len(items))
    THEN [raised |-> FALSE, text_count |-> tc, image_count |-> ic, inspected |-> i - 1]
    ELSE IF items[i].kind = "document" THEN ItemLoopElse(items, i + 1, tc + 1, ic)
    ELSE ItemLoopElse(items, i + 1, tc, ic + 1)

\* ParseEpub's loop over list(epub_book.get_items())[:10] from the i-th item on.
RECURSIVE ItemLoop(_, _, _, _)
ItemLoop(items, i, tc, ic) ==
    IF i > Min(ItemCap, Len(items))
    THEN [raised |-> FALSE, text_count |-> tc, image_count |-> ic, inspected |-> i - 1]
    ELSE IF items[i].kind = "document" THEN ItemLoop(items, i + 1, tc + 1, ic)
    ELSE IF items[i].kind = "image" THEN ItemLoop(items, i + 1, tc, ic + 1)
    ELSE ItemLoop(items, i + 1, tc, ic)

\* ps2pdf ps_path pdf_path, run without check: a PostScript file that converts
\* is written as a PDF of the same pages into the input folder, over whatever
\* was at pdf_path; one that does not convert leaves the folder as it was, and
\* the run goes on.
ps2pdf(fs, ps_path, pdf_path) ==
    IF OpenPath(fs, ps_path).ok
    THEN (basename(pdf_path) :> OpenPath(fs, ps_path)) @@ fs
    ELSE fs

\* ----------------------------------------------------------- the handlers
\* Each handler yields [raised, json, dirs]: whether it raised, and the output
\* folder as it leaves it.

Result(raised, js, ds) == [raised |-> raised, json |-> js, dirs |-> ds]

AllPagesOk(doc) == \A i \in 1..Len(doc.pages) : doc.pages[i].ok

PagePrefix == <<"p", "a", "g", "e", "_">>
ImagePrefix == <<"i", "m", "a", "g", "e", "_">>
ImgPrefix == <<"i", "m", "g", "_">>
ImgInfix == <<"_", "i", "m", "g", "_">>

\* Mutant of PageFile: the pages are saved under .jpg names.
PageFileJpg(n) == PagePrefix \o str(n) \o <<".", "j", "p", "g">>

\* f"page_{n}.png"
PageFile(n) == PagePrefix \o str(n) \o ExtPng

\* os.makedirs(image_folder, exist_ok=True)
makedirs(ds, folder) == IF folder \in DOMAIN ds THEN ds ELSE (folder :> {}) @@ ds

\* Files written into a directory of the output folder.
WriteInto(ds, folder, names) == (folder :> (ds[folder] \cup names)) @@ ds

\* Mutant of process_text_pdf: a page is appended only if it has text.
process_text_pdf_nonempty(r, fs, pdf_path, name, js, ds) ==
    LET doc == OpenPath(fs, pdf_path)
        text_data == SelectSeq([i \in 1..Len(doc.pages) |-> strip(doc.pages[i].text)],
                               LAMBDA t : t # <<>>)
    IN  IF ~PathExists(fs, pdf_path) \/ ~doc.ok \/ ~AllPagesOk(doc)
        THEN Result(TRUE, js, ds)
        ELSE Result(FALSE, (JsonName(r, name) :> text_data) @@ js, ds)

\* ParsePdf._process_text_pdf / ParsePostScript._process_text_ps: the document
\* at pdf_path is opened again, the text of every page is extracted and
\* stripped, and the list is dumped to the JSON file named from name.
process_text_pdf(r, fs, pdf_path, name, js, ds) ==
    LET doc == OpenPath(fs, pdf_path)
        text_data == [i \in 1..Len(doc.pages) |-> strip(doc.pages[i].text)]
    IN  IF ~PathExists(fs, pdf_path) \/ ~doc.ok \/ ~AllPagesOk(doc)
        THEN Result(TRUE, js, ds)
        ELSE Result(FALSE, (JsonName(r, name) :> text_data) @@ js, ds)

\* Mutant of process_image_pdf: the first image is read before the loop, which
\* raises for a document of no pages.
process_image_pdf_first(r, fs, pdf_path, name, js, ds) ==
    LET doc == OpenPath(fs, pdf_path)
        image_folder == FolderName(r, name)
        images == [i \in 0..(Len(doc.pages) - 1) |-> PageFile(i + 1)]
    IN  IF ~PathExists(fs, pdf_path) \/ ~doc.ok \/ ~AllPagesOk(doc) \/ Len(doc.pages) = 0
        THEN Result(TRUE, js, ds)
        ELSE Result(FALSE, js,
                    WriteInto(makedirs(ds, image_folder), image_folder,
                              {images[i] : i \in DOMAIN images}))

\* ParsePdf._process_image_pdf / ParsePostScript._process_image_ps:
\* convert_from_path renders every page (and raises before anything is
\* written if it cannot), then page i of enumerate(images) is saved as
\* page_{i + 1}.png.
process_image_pdf(r, fs, pdf_path, name, js, ds) ==
    LET doc == OpenPath(fs, pdf_path)
        image_folder == FolderName(r, name)
        images == [i \in 0..(Len(doc.pages) - 1) |-> PageFile(i + 1)]
    IN  IF ~PathExists(fs, pdf_path) \/ ~doc.ok \/ ~AllPagesOk(doc)
        THEN Result(TRUE, js, ds)
        ELSE Result(FALSE, js,
                    WriteInto(makedirs(ds, image_folder), image_folder,
                              {images[i] : i \in DOMAIN images}))

\* djvutxt djvu_path: the text of the whole document, each page's text
\* followed by a form feed.
RECURSIVE djvutxt(_)
djvutxt(pages) ==
    IF pages = <<>> THEN <<>> ELSE Head(pages).text \o <<"\f">> \o djvutxt(Tail(pages))

\* ParseDjvu._process_text_djvu: one djvutxt call for the whole document
\* (check_output raises if it fails); its stripped output is the single entry
\* appended to text_data.
process_text_djvu(r, fs, djvu_path, name, js, ds) ==
    LET doc == OpenPath(fs, djvu_path)
        text_content == strip(djvutxt(doc.pages))
        text_data == <<text_content>>
    IN  IF ~doc.ok \/ ~AllPagesOk(doc)
        THEN Result(TRUE, js, ds)
        ELSE Result(FALSE, (JsonName(r, name) :> text_data) @@ js, ds)

\* ParseDjvu._process_image_djvu: the directory is made first, the pages are
\* counted (check_output raises if djvused fails), and ddjvu is run for each
\* page 1..total_pages with subprocess.run, whose exit status is not looked
\* at: a page ddjvu cannot render leaves no file and the loop goes on.
process_image_djvu(r, fs, djvu_path, name, js, ds) ==
    LET doc == OpenPath(fs, djvu_path)
        image_folder == FolderName(r, name)
        made == makedirs(ds, image_folder)
        total == Len(doc.pages)
    IN  IF ~doc.ok
        THEN Result(TRUE, js, made)
        ELSE Result(FALSE, js,
                    WriteInto(made, image_folder,
                              {PageFile(i) : i \in {j \in 1..total : doc.pages[j].ok}}))

\* The items of one ebooklib type, in the book's order.
ItemsOfType(items, kind) == SelectSeq(items, LAMBDA it : it.kind = kind)

\* ParseEpub._process_text_epub: the decoded, stripped content of every
\* ITEM_DOCUMENT item.
process_text_epub(r, fs, epub_path, name, js, ds) ==
    LET doc == OpenPath(fs, epub_path)
        documents == ItemsOfType(doc.pages, "document")
        text_data == [i \in 1..Len(documents) |-> strip(documents[i].text)]
    IN  IF ~doc.ok
        THEN Result(TRUE, js, ds)
        ELSE Result(FALSE, (JsonName(r, name) :> text_data) @@ js, ds)

\* Mutant of process_image_epub: the images are numbered from 0.
process_image_epub_from_zero(r, fs, epub_path, name, js, ds) ==
    LET doc == OpenPath(fs, epub_path)
        image_folder == FolderName(r, name)
        images == ItemsOfType(doc.pages, "image")
    IN  IF ~doc.ok
        THEN Result(TRUE, js, ds)
        ELSE Result(FALSE, js,
                    WriteInto(makedirs(ds, image_folder), image_folder,
                              {ImagePrefix \o str(i) \o ExtPng : i \in 0..(Len(images) - 1)}))

\* ParseEpub._process_image_epub: the i-th ITEM_IMAGE item of enumerate is
\* written as image_{i + 1}.png.
process_image_epub(r, fs, epub_path, name, js, ds) ==
    LET doc == OpenPath(fs, epub_path)
        image_folder == FolderName(r, name)
        images == ItemsOfType(doc.pages, "image")
    IN  IF ~doc.ok
        THEN Result(TRUE, js, ds)
        ELSE Result(FALSE, js,
                    WriteInto(makedirs(ds, image_folder), image_folder,
                              {ImagePrefix \o str(i + 1) \o ExtPng : i \in 0..(Len(images) - 1)}))

\* ParseXPS._process_xps_file: image img_index of page page_num is written as
\* page_{page_num + 1}_img_{img_index + 1}.png.
process_xps_file(fs, xps_path, js, ds) ==
    LET doc == OpenPath(fs, xps_path)
        image_folder == FolderName("xps", basename(xps_path))
    IN  IF ~doc.ok
        THEN Result(TRUE, js, ds)
        ELSE Result(FALSE, js,
                    WriteInto(makedirs(ds, image_folder), image_folder,
                              {PagePrefix \o str(page_num + 1) \o ImgInfix \o str(img_index + 1) \o ExtPng :
                                 <<page_num, img_index>> \in
                                   {pi \in (0..(Len(doc.pages) - 1)) \X (0..(MaxImgs - 1)) :
                                      pi[2] < doc.pages[pi[1] + 1].nimg}}))

\* The endings ParseCBZCBR takes for image members.
ImageEndings == {<<"j", "p", "g">>, <<"j", "p", "e", "g">>, <<"p", "n", "g">>,
                 <<"g", "i", "f">>, <<"b", "m", "p">>}

\* ParseCBZCBR._process_cbz_file / _process_cbr_file: the archive is opened
\* (raising before the directory is made if it cannot be), and every member
\* whose lower-cased filename has an image ending is extracted under its own
\* name.
process_cbz_file(fs, cbz_path, js, ds) ==
    LET doc == OpenPath(fs, cbz_path)
        image_folder == FolderName("cbz_cbr", basename(cbz_path))
    IN  IF ~doc.ok
        THEN Result(TRUE, js, ds)
        ELSE Result(FALSE, js,
                    WriteInto(makedirs(ds, image_folder), image_folder,
                              {doc.pages[i].text : i \in
                                 {j \in 1..Len(doc.pages) :
                                    \E e \in ImageEndings : endswith(lower(doc.pages[j].text), e)}}))

\* ParseMOBI._process_mobi_file: image img_index of book.images is written as
\* img_{img_index + 1}.png. The text of the book is not read.
process_mobi_file(fs, mobi_path, js, ds) ==
    LET doc == OpenPath(fs, mobi_path)
        image_folder == FolderName("mobi", basename(mobi_path))
        images == ItemsOfType(doc.pages, "image")
    IN  IF ~doc.ok
        THEN Result(TRUE, js, ds)
        ELSE Result(FALSE, js,
                    WriteInto(makedirs(ds, image_folder), image_folder,
                              {ImgPrefix \o str(img_index + 1) \o ExtPng :
                                 img_index \in 0..(Len(images) - 1)}))

\* The text handler and the image handler of each classifying reader, as
\* process() calls them.
TextHandler(r, fs, name, js, ds) ==
    CASE r = "pdf" -> process_text_pdf(r, fs, join(input_folder, name), name, js, ds)
      [] r = "ps" -> process_text_pdf(r, fs, join(input_folder, PdfNameOfPs(name)), name, js, ds)
      [] r = "djvu" -> process_text_djvu(r, fs, join(input_folder, name), name, js, ds)
      [] r = "epub" -> process_text_epub(r, fs, join(input_folder, name), name, js, ds)

ImageHandler(r, fs, name, js, ds) ==
    CASE r = "pdf" -> process_image_pdf(r, fs, join(input_folder, name), name, js, ds)
      [] r = "ps" -> process_image_pdf(r, fs, join(input_folder, PdfNameOfPs(name)), name, js, ds)
      [] r = "djvu" -> process_image_djvu(r, fs, join(input_folder, name), name, js, ds)
      [] r = "epub" -> process_image_epub(r, fs, join(input_folder, name), name, js, ds)

\* The one handler of the readers that do not classify.
ExtractHandler(r, fs, name, js, ds) ==
    CASE r = "xps" -> process_xps_file(fs, join(input_folder, name), js, ds)
      [] r = "cbz_cbr" -> process_cbz_file(fs, join(input_folder, name), js, ds)
      [] r = "mobi" -> process_mobi_file(fs, join(input_folder, name), js, ds)

\* ------------------------------------------------------------ the actions

\* The file the loop of process() is at.
Current == listing[idx]

\* Mutant of process_skip: the loop does not move past a filename it skips.
process_skip_stay ==
    /\ reader \in Readers
    /\ pc = "loop"
    /\ idx < Len(listing)
    /\ ~Accepts(reader, listing[idx + 1])
    /\ idx' = idx
    /\ UNCHANGED <<reader, listing, files, pc, total_pages, sample_pages, text_count,
                   image_count, inspected, json, dirs, calls, log>>
    /\ UNCHANGED bolt_vars
    /\ UNCHANGED conv_vars
    /\ UNCHANGED mounted
    /\ UNCHANGED open_handles

\* Loop head, a filename the reader does not take: continue.
process_skip ==
    /\ reader \in Readers
    /\ pc = "loop"
    /\ idx < Len(listing)
    /\ ~Accepts(reader, listing[idx + 1])
    /\ idx' = idx + 1
    /\ UNCHANGED <<reader, listing, files, pc, total_pages, sample_pages, text_count,
                   image_count, inspected, json, dirs, calls, log>>
    /\ UNCHANGED bolt_vars
    /\ UNCHANGED conv_vars
    /\ UNCHANGED mounted
    /\ UNCHANGED open_handles

\* Where the classification reads the document from: the file itself, or for
\* ParsePostScript the PDF that ps2pdf is asked to write next to it.
ClassifyPath(r, name) ==
    IF r = "ps" THEN join(input_folder, PdfNameOfPs(name)) ELSE join(input_folder, name)

\* The readers whose code opens the document with open() and hands the file
\* object to the PDF library, without a with block and without close().
Opening == {"pdf", "ps"}

\* Loop head of a classifying reader, a filename it takes: the document is
\* opened, its pages are counted and sampled, and the sampled pages are
\* counted as text or image. Any of these raising ends process(). The file
\* object ParsePdf and ParsePostScript open stays open.
process_classify ==
    /\ pc = "loop"
    /\ reader \in Classifying
    /\ idx < Len(listing)
    /\ Accepts(reader, listing[idx + 1])
    /\ idx' = idx + 1
    /\ LET name == listing[idx + 1]
           fs == IF reader = "ps"
                 THEN ps2pdf(files, join(input_folder, name), ClassifyPath(reader, name))
                 ELSE files
           path == ClassifyPath(reader, name)
       IN  /\ files' = fs
           /\ open_handles' =
                 IF reader \in Opening /\ PathExists(fs, path)
                 THEN open_handles + 1 ELSE open_handles
           /\ IF ~PathExists(fs, path) \/ ~OpenPath(fs, path).ok
              THEN /\ pc' = "raised"
                   /\ UNCHANGED <<total_pages, sample_pages, text_count, image_count, inspected>>
              ELSE LET doc == OpenPath(fs, path) IN
                   IF reader = "epub"
                   THEN LET c == ItemLoop(doc.pages, 1, 0, 0) IN
                        /\ text_count' = c.text_count
                        /\ image_count' = c.image_count
                        /\ inspected' = c.inspected
                        /\ pc' = "route"
                        /\ UNCHANGED <<total_pages, sample_pages>>
                   ELSE \E sample \in Samples(PageRange(reader, Len(doc.pages)),
                                              Min(SampleCap, Len(doc.pages))) :
                        LET c == SampleLoop(reader, doc, sample, 1, 0, 0) IN
                        /\ total_pages' = Len(doc.pages)
                        /\ sample_pages' = sample
                        /\ text_count' = c.text_count
                        /\ image_count' = c.image_count
                        /\ inspected' = c.inspected
                        /\ pc' = IF c.raised THEN "raised" ELSE "route"
    /\ UNCHANGED <<reader, listing, json, dirs, calls, log>>
    /\ UNCHANGED bolt_vars
    /\ UNCHANGED conv_vars
    /\ UNCHANGED mounted

\* The number of handler calls made for the file the loop is at.
CallsOfCurrent == Cardinality({i \in DOMAIN calls : calls[i][1] = Current})

\* Mutant of RoutesToText: a tie goes to the text handler.
RoutesToTextOnTie(tc, ic) == tc >= ic

\* if text_count > image_count: the text handler, else: the image handler
RoutesToText(tc, ic) == tc > ic

\* Mutant of process_route: the handler is called a second time.
process_route_retry ==
    /\ reader \in Classifying
    /\ pc = "route"
    /\ LET handler == IF RoutesToText(text_count, image_count) THEN "text" ELSE "image"
           res == IF RoutesToText(text_count, image_count)
                  THEN TextHandler(reader, files, Current, json, dirs)
                  ELSE ImageHandler(reader, files, Current, json, dirs)
       IN  /\ calls' = Append(calls, <<Current, handler>>)
           /\ json' = res.json
           /\ dirs' = res.dirs
           /\ pc' = IF res.raised THEN "raised"
                    ELSE IF CallsOfCurrent = 0 THEN "route" ELSE "loop"
           /\ log' = IF res.raised THEN log ELSE Append(log, <<Current, handler>>)
           /\ open_handles' =
                 IF reader \in Opening /\ handler = "text"
                 THEN open_handles + 1 ELSE open_handles
    /\ UNCHANGED <<reader, listing, files, idx, total_pages, sample_pages, text_count,
                   image_count, inspected>>
    /\ UNCHANGED bolt_vars
    /\ UNCHANGED conv_vars
    /\ UNCHANGED mounted

\* The routing decision and the handler it calls, to the handler's return:
\* the text handler if text_count > image_count, else the image handler. The
\* text handlers of ParsePdf and ParsePostScript open the document once more.
process_route ==
    /\ reader \in Classifying
    /\ pc = "route"
    /\ LET handler == IF RoutesToText(text_count, image_count) THEN "text" ELSE "image"
           res == IF RoutesToText(text_count, image_count)
                  THEN TextHandler(reader, files, Current, json, dirs)
                  ELSE ImageHandler(reader, files, Current, json, dirs)
       IN  /\ calls' = Append(calls, <<Current, handler>>)
           /\ json' = res.json
           /\ dirs' = res.dirs
           /\ pc' = IF res.raised THEN "raised" ELSE "loop"
           /\ log' = IF res.raised THEN log ELSE Append(log, <<Current, handler>>)
           /\ open_handles' =
                 IF reader \in Opening /\ handler = "text"
                 THEN open_handles + 1 ELSE open_handles
    /\ UNCHANGED <<reader, listing, files, idx, total_pages, sample_pages, text_count,
                   image_count, inspected>>
    /\ UNCHANGED bolt_vars
    /\ UNCHANGED conv_vars
    /\ UNCHANGED mounted

\* Loop head of ParseXPS, ParseCBZCBR or ParseMOBI, a filename it takes: the
\* file's handler is called, to its return.
process_extract ==
    /\ pc = "loop"
    /\ reader \in Readers \ Classifying
    /\ idx < Len(listing)
    /\ Accepts(reader, listing[idx + 1])
    /\ idx' = idx + 1
    /\ LET name == listing[idx + 1]
           res == ExtractHandler(reader, files, name, json, dirs)
       IN  /\ calls' = Append(calls, <<name, "image">>)
           /\ json' = res.json
           /\ dirs' = res.dirs
           /\ pc' = IF res.raised THEN "raised" ELSE "loop"
           /\ log' = IF res.raised THEN log ELSE Append(log, <<name, "image">>)
    /\ UNCHANGED <<reader, listing, files, total_pages, sample_pages, text_count,
                   image_count, inspected>>
    /\ UNCHANGED bolt_vars
    /\ UNCHANGED conv_vars
    /\ UNCHANGED mounted
    /\ UNCHANGED open_handles

\* The file objects a run still refers to: the one the local pdf_reader of
\* process() holds while the document is being routed.
Referenced == IF reader \in Opening /\ pc = "route" THEN 1 ELSE 0

\* The garbage collector: file objects nothing refers to any more are closed
\* when the collector finds them, which may be at any time or never during
\* the run.
gc ==
    /\ reader \in Opening
    /\ open_handles > Referenced
    /\ open_handles' \in Referenced..(open_handles - 1)
    /\ UNCHANGED <<reader, listing, files, idx, pc, json, dirs, calls, log>>
    /\ UNCHANGED classify_vars
    /\ UNCHANGED bolt_vars
    /\ UNCHANGED conv_vars
    /\ UNCHANGED mounted

\* The listing is exhausted: process() returns.
process_return ==
    /\ reader \in Readers
    /\ pc = "loop"
    /\ idx = Len(listing)
    /\ pc' = "done"
    /\ UNCHANGED <<reader, listing, files, idx, total_pages, sample_pages, text_count,
                   image_count, inspected, json, dirs, calls, log>>
    /\ UNCHANGED bolt_vars
    /\ UNCHANGED conv_vars
    /\ UNCHANGED mounted
    /\ UNCHANGED open_handles

\* --------------------------------------------------------- the OCR servers

\* The bolts that serve ocr requests over HTTP.
Apis == {"doctr_api", "pix2struct_api", "trocr_api"}

\* URL paths, as the sequences of their segments.
PathApiV1 == <<"api", "v1">>
PathTrocr == <<"api", "v1", "trocr">>

\* cherrypy.tree.mount(self, script_name, ...): where listen() mounts the
\* object whose exposed method is ocr.
MountPath(r) == IF r = "trocr_api" THEN PathTrocr ELSE PathApiV1

\* The URL path CherryPy serves the exposed method ocr at.
OcrPath(mount) == mount \o <<"ocr">>

\* No Authorization header, and a header after whose first 6 characters comes
\* the base64 encoding of text.
NoHeader == [present |-> FALSE, b64 |-> <<>>]
Header(text) == [present |-> TRUE, b64 |-> text]

\* base64.b64decode(auth_header[6:]).decode("utf-8")
b64decode(header) == header.b64

\* text.split(":", 1): the parts before and after the first colon, or the one
\* part that is the text if it has no colon.
split_colon(text) ==
    LET colons == {i \in 1..Len(text) : text[i] = ":"}
    IN  IF colons = {} THEN <<text>>
        ELSE LET c == CHOOSE i \in colons : \A j \in colons : i <= j
             IN  <<SubSeq(text, 1, c - 1), SubSeq(text, c + 1, Len(text))>>

\* _check_auth(username, password): "401" if there is no header or the
\* header names other credentials, "raised" if the decoded header has no
\* colon (the unpacking of the split raises ValueError), "ok" otherwise.
check_auth(username, password, header) ==
    IF ~header.present THEN "401"
    ELSE LET parts == split_colon(b64decode(header)) IN
         IF Len(parts) # 2 THEN "raised"
         ELSE IF parts[1] # username \/ parts[2] # password THEN "401"
         ELSE "ok"

\* The requests a client sends: the URL path and the method.
Urls == {OcrPath(PathApiV1), OcrPath(PathTrocr)}
Methods == {"POST", "GET"}

\* The credentials a request carries: the username and password parameters
\* and the Authorization header.
AuthCases ==
    {<<<<>>, <<"p">>, NoHeader>>,
     <<<<"u">>, <<>>, NoHeader>>,
     <<<<"u">>, <<"p">>, NoHeader>>,
     <<<<"u">>, <<"p">>, Header(<<"u", ":", "p">>)>>,
     <<<<"u">>, <<"p">>, Header(<<"x", ":", "p">>)>>,
     <<<<"u">>, <<"p">>, Header(<<"u", "p">>)>>}

\* The keys of the JSON object each ocr handler returns.
ResponseKeys(r) ==
    CASE r = "doctr_api" -> {"ocr_text", "bound"}
      [] r = "pix2struct_api" -> {"ocr_text"}
      [] r = "trocr_api" -> {"ocr_text", "image_with_boxes"}

\* A request the server has not taken yet.
Idle == [pc |-> "idle", used |-> <<0, 0>>, url |-> <<>>, method |-> "",
         username |-> <<>>, password |-> <<>>, header |-> NoHeader,
         decoded |-> FALSE, keys |-> {}]

\* listen(): the processor and the model are loaded and assigned to
\* self.processor and self.model (DoctrImageOCRAPI has a predictor only, as
\* self.model), the object is mounted and the server is started.
listen ==
    /\ reader \in Apis
    /\ pc = "init"
    /\ IF reader = "doctr_api"
       THEN /\ model' = loads + 1
            /\ loads' = loads + 1
            /\ UNCHANGED processor
       ELSE /\ processor' = loads + 1
            /\ model' = loads + 2
            /\ loads' = loads + 2
    /\ mounted' = MountPath(reader)
    /\ pc' = "serving"
    /\ UNCHANGED <<reader, listing, files, idx, json, dirs, calls, log, requests, classes>>
    /\ UNCHANGED classify_vars
    /\ UNCHANGED conv_vars
    /\ UNCHANGED open_handles

\* A request arrives and is dispatched: CherryPy answers 404 if its path is
\* not that of ocr under the mount path, and tools.allow answers 405 if its
\* method is not POST. Then ocr(), to the decoding of the image: with a
\* username and a password that are both non-empty _check_auth is called; the
\* image is decoded, which raises if it is none; Pix2StructImageOCRAPI goes on
\* to load, the others to run the model.
ocr_begin(q) ==
    /\ reader \in Apis
    /\ pc = "serving"
    /\ requests[q].pc = "idle"
    /\ \E url \in Urls, method \in Methods, auth \in AuthCases, image_ok \in BOOLEAN :
          LET username == auth[1]
              password == auth[2]
              header == auth[3]
              checked == IF username # <<>> /\ password # <<>>
                         THEN check_auth(username, password, header)
                         ELSE "ok"
              sent == [requests[q] EXCEPT !.url = url, !.method = method]
              carried == [sent EXCEPT !.username = username, !.password = password,
                                      !.header = header]
          IN  requests' = [requests EXCEPT ![q] =
                  IF url # OcrPath(mounted) THEN [sent EXCEPT !.pc = "404"]
                  ELSE IF method # "POST" THEN [sent EXCEPT !.pc = "405"]
                  ELSE IF checked # "ok" THEN [carried EXCEPT !.pc = checked]
                  ELSE IF ~image_ok THEN [carried EXCEPT !.pc = "raised", !.decoded = TRUE]
                  ELSE [carried EXCEPT !.decoded = TRUE,
                                       !.pc = IF reader = "pix2struct_api"
                                              THEN "load_processor" ELSE "run"]]
    /\ UNCHANGED <<reader, listing, files, idx, pc, json, dirs, calls, log,
                   model, processor, loads, classes>>
    /\ UNCHANGED classify_vars
    /\ UNCHANGED conv_vars
    /\ UNCHANGED mounted
    /\ UNCHANGED open_handles

\* Pix2StructImageOCRAPI.ocr: self.processor = Pix2StructProcessor.from_pretrained(...)
ocr_load_processor(q) ==
    /\ reader = "pix2struct_api"
    /\ requests[q].pc = "load_processor"
    /\ processor' = loads + 1
    /\ loads' = loads + 1
    /\ requests' = [requests EXCEPT ![q].pc = "load_model"]
    /\ UNCHANGED <<reader, listing, files, idx, pc, json, dirs, calls, log, model, classes>>
    /\ UNCHANGED classify_vars
    /\ UNCHANGED conv_vars
    /\ UNCHANGED mounted
    /\ UNCHANGED open_handles

\* Pix2StructImageOCRAPI.ocr:
\* self.model = Pix2StructForConditionalGeneration.from_pretrained(...).to(device)
ocr_load_model(q) ==
    /\ reader = "pix2struct_api"
    /\ requests[q].pc = "load_model"
    /\ model' = loads + 1
    /\ loads' = loads + 1
    /\ requests' = [requests EXCEPT ![q].pc = "run"]
    /\ UNCHANGED <<reader, listing, files, idx, pc, json, dirs, calls, log, processor, classes>>
    /\ UNCHANGED classify_vars
    /\ UNCHANGED conv_vars
    /\ UNCHANGED mounted
    /\ UNCHANGED open_handles

\* ocr(), from the image to the answer: the objects self.processor and
\* self.model hold at this moment are run on the image, and the result is
\* returned.
ocr_run(q) ==
    /\ reader \in Apis
    /\ requests[q].pc = "run"
    /\ requests' = [requests EXCEPT ![q].pc = "returned",
                                     ![q].used = <<processor, model>>,
                                     ![q].keys = ResponseKeys(reader)]
    /\ UNCHANGED <<reader, listing, files, idx, pc, json, dirs, calls, log,
                   model, processor, loads, classes>>
    /\ UNCHANGED classify_vars
    /\ UNCHANGED conv_vars
    /\ UNCHANGED mounted
    /\ UNCHANGED open_handles

ocr == \E q \in 1..MaxRequests :
          ocr_begin(q) \/ ocr_load_processor(q) \/ ocr_load_model(q) \/ ocr_run(q)

\* ------------------------------------------------------------ the predictor

\* Python values that are dictionary keys: a str and an int are never equal.
PyStr(s) == [type |-> "str", str |-> s, int |-> 0]
PyInt(n) == [type |-> "int", str |-> <<>>, int |-> n]

\* json.loads of a JSON object, given as the sequence of its members
\* <<key, value>>: a dict whose keys are str, a later member of the same key
\* taking the place of an earlier one.
json_loads(members) ==
    [key \in {PyStr(members[i][1]) : i \in DOMAIN members} |->
        members[CHOOSE i \in DOMAIN members :
                    /\ PyStr(members[i][1]) = key
                    /\ \A j \in DOMAIN members : PyStr(members[j][1]) = key => j <= i][2]]

Unknown == <<"U", "n", "k", "n", "o", "w", "n">>

\* ImageClassPredictor.get_label: self.classes.get(class_idx, "Unknown")
get_label(d, class_idx) == IF class_idx \in DOMAIN d THEN d[class_idx] ELSE Unknown

\* The label the classes argument gives class i.
Label(i) ==
    CASE i = 0 -> <<"c", "a", "t">>
      [] i = 1 -> <<"d", "o", "g">>
      [] OTHER -> <<"l">> \o str(i)

\* The classes arguments: '{}', '{"0": "cat"}', '{"0": "cat", "1": "dog"}', ...
ClassesJson == {[i \in 1..k |-> <<str(i - 1), Label(i - 1)>>] : k \in 0..(MaxClass + 1)}

\* The endings ImageClassPredictor takes for images.
PredictEndings == {<<"p", "n", "g">>, <<"j", "p", "g">>, <<"j", "p", "e", "g">>}

PredictAccepts(name) == \E e \in PredictEndings : endswith(lower(name), e)

\* predict(), to the loop: self.classes = json.loads(classes), and the model
\* is loaded.
predict_load ==
    /\ reader = "predict"
    /\ pc = "init"
    /\ \E classes_json \in ClassesJson : classes' = json_loads(classes_json)
    /\ pc' = "loaded"
    /\ UNCHANGED <<reader, listing, files, idx, json, dirs, calls, log,
                   model, processor, loads, requests>>
    /\ UNCHANGED classify_vars
    /\ UNCHANGED conv_vars
    /\ UNCHANGED mounted
    /\ UNCHANGED open_handles

\* os.listdir(folder), folder a bare name of os.listdir(input_folder): it
\* lists the sub-folder if the working directory is the input folder, and
\* raises otherwise.
predict_listdir ==
    /\ reader = "predict"
    /\ pc = "loaded"
    /\ \E cwd_is_input_folder \in BOOLEAN :
          pc' = IF cwd_is_input_folder THEN "loop" ELSE "raised"
    /\ UNCHANGED <<reader, listing, files, idx, json, dirs, calls, log>>
    /\ UNCHANGED bolt_vars
    /\ UNCHANGED classify_vars
    /\ UNCHANGED conv_vars
    /\ UNCHANGED mounted
    /\ UNCHANGED open_handles

\* Loop head, a file that is no image by its name: continue.
predict_skip ==
    /\ reader = "predict"
    /\ pc = "loop"
    /\ idx < Len(listing)
    /\ ~PredictAccepts(listing[idx + 1])
    /\ idx' = idx + 1
    /\ UNCHANGED <<reader, listing, files, pc, json, dirs, calls, log>>
    /\ UNCHANGED bolt_vars
    /\ UNCHANGED classify_vars
    /\ UNCHANGED conv_vars
    /\ UNCHANGED mounted
    /\ UNCHANGED open_handles

\* Loop head, an image by its name: the image is opened (which raises if it
\* is none), the model predicts a class index, get_label gives its label, and
\* the image is saved to output_folder/label/image_file and logged.
predict_image ==
    /\ reader = "predict"
    /\ pc = "loop"
    /\ idx < Len(listing)
    /\ PredictAccepts(listing[idx + 1])
    /\ idx' = idx + 1
    /\ LET image_file == listing[idx + 1] IN
       IF ~files[image_file].ok
       THEN /\ pc' = "raised"
            /\ UNCHANGED <<dirs, calls, log>>
       ELSE \E predicted \in 0..MaxClass :
               LET label == get_label(classes, PyInt(predicted)) IN
               /\ calls' = Append(calls, <<image_file, predicted>>)
               /\ dirs' = WriteInto(makedirs(dirs, label), label, {image_file})
               /\ log' = Append(log, <<image_file, label>>)
               /\ pc' = pc
    /\ UNCHANGED <<reader, listing, files, json>>
    /\ UNCHANGED bolt_vars
    /\ UNCHANGED classify_vars
    /\ UNCHANGED conv_vars
    /\ UNCHANGED mounted
    /\ UNCHANGED open_handles

\* The listing is exhausted: predict() returns.
predict_return ==
    /\ reader = "predict"
    /\ pc = "loop"
    /\ idx = Len(listing)
    /\ pc' = "done"
    /\ UNCHANGED <<reader, listing, files, idx, json, dirs, calls, log>>
    /\ UNCHANGED bolt_vars
    /\ UNCHANGED classify_vars
    /\ UNCHANGED conv_vars
    /\ UNCHANGED mounted
    /\ UNCHANGED open_handles

\* ------------------------------------------------------------ ConvertImage

\* name.split(".")[-1]: the text after the last dot, the whole name if it has
\* no dot.
split_last(name) ==
    LET dots == {i \in 1..Len(name) : name[i] = "."}
    IN  IF dots = {} THEN name
        ELSE SubSeq(name, (CHOOSE i \in dots : \A j \in dots : j <= i) + 1, Len(name))

\* os.path.splitext(name)[0]: the name up to its last dot, the whole name if
\* it has no dot or only dots before its last dot.
splitext(name) ==
    LET dots == {i \in 1..Len(name) : name[i] = "."}
        last == CHOOSE i \in dots : \A j \in dots : j <= i
    IN  IF dots = {} \/ \A k \in 1..(last - 1) : name[k] = "."
        THEN name
        ELSE SubSeq(name, 1, last - 1)

UpperChar(c) ==
    IF \E i \in DOMAIN LowerCase : LowerCase[i] = c
    THEN UpperCase[CHOOSE i \in DOMAIN LowerCase : LowerCase[i] = c]
    ELSE c

\* str.upper()
upper(s) == [i \in DOMAIN s |-> UpperChar(s[i])]

FmtPNG == <<"P", "N", "G">>
FmtJPG == <<"J", "P", "G">>

\* The extensions ConvertImage takes for images.
ConvertExtensions == {<<"p", "n", "g">>, <<"j", "p", "g">>, <<"j", "p", "e", "g">>}

\* An image file: ok FALSE if Image.open cannot read it, mode the pixel format
\* of the image it holds.
Picture(ok, mode) == [ok |-> ok, mode |-> mode]

\* The format PIL's image.save(path) takes from the extension of path.
FormatOfPath(path) ==
    IF endswith(lower(path), <<".", "p", "n", "g">>) THEN "PNG" ELSE "JPEG"

\* image.save in the format fmt: PIL writes any mode as PNG, and raises OSError
\* for an image with an alpha channel written as JPEG.
SaveRaises(image, fmt) == fmt = "JPEG" /\ image.mode = "RGBA"

\* The body of ConvertImage's loop for image_file, an image by its name: what
\* it saves, if anything, and whether it raises.
convert(image, image_file, output_format) ==
    LET file_extension == split_last(lower(image_file))
        output_file == splitext(image_file) \o <<".">> \o lower(output_format)
        fmt == IF file_extension = lower(output_format) THEN FormatOfPath(output_file)
               ELSE IF upper(output_format) = FmtPNG THEN "PNG"
               ELSE IF upper(output_format) = FmtJPG THEN "JPEG"
               ELSE "none"
    IN  [output_file |-> output_file,
         format |-> fmt,
         raised |-> ~image.ok \/ (fmt # "none" /\ SaveRaises(image, fmt))]

\* Loop head, a file that is no image by its name: continue.
convert_skip ==
    /\ reader = "convert_image"
    /\ pc = "loop"
    /\ idx < Len(listing)
    /\ split_last(lower(listing[idx + 1])) \notin ConvertExtensions
    /\ idx' = idx + 1
    /\ UNCHANGED <<reader, listing, files, pc, json, dirs, calls, log>>
    /\ UNCHANGED conv_vars
    /\ UNCHANGED bolt_vars
    /\ UNCHANGED classify_vars
    /\ UNCHANGED mounted
    /\ UNCHANGED open_handles

\* Loop head, an image by its name: it is opened, saved as it is if its
\* extension is the output format, else saved as PNG or as JPEG, and logged.
convert_image ==
    /\ reader = "convert_image"
    /\ pc = "loop"
    /\ idx < Len(listing)
    /\ split_last(lower(listing[idx + 1])) \in ConvertExtensions
    /\ idx' = idx + 1
    /\ LET image_file == listing[idx + 1]
           c == convert(files[image_file], image_file, args.output_format)
       IN  IF c.raised
           THEN /\ pc' = "raised"
                /\ UNCHANGED <<saved, calls, log>>
           ELSE /\ pc' = pc
                /\ saved' = IF c.format = "none" THEN saved
                            ELSE [n \in DOMAIN saved \cup {c.output_file} |->
                                     IF n = c.output_file THEN c.format ELSE saved[n]]
                /\ calls' = IF c.format = "none" THEN calls
                            ELSE Append(calls, <<image_file, c.output_file, c.format>>)
                /\ log' = Append(log, <<image_file, c.output_file>>)
    /\ UNCHANGED <<reader, listing, files, json, dirs, args, dataset>>
    /\ UNCHANGED bolt_vars
    /\ UNCHANGED classify_vars
    /\ UNCHANGED mounted
    /\ UNCHANGED open_handles

\* The listing is exhausted: process() returns.
convert_return ==
    /\ reader = "convert_image"
    /\ pc = "loop"
    /\ idx = Len(listing)
    /\ pc' = "done"
    /\ UNCHANGED <<reader, listing, files, idx, json, dirs, calls, log>>
    /\ UNCHANGED conv_vars
    /\ UNCHANGED bolt_vars
    /\ UNCHANGED classify_vars
    /\ UNCHANGED mounted
    /\ UNCHANGED open_handles

\* ----------------------------------------------------------------- bulk OCR

\* The bulk OCR bolts.
Bulks == {"trocr_bulk", "pix2struct_bulk"}

\* The endings the bulk OCR bolts take for images.
BulkEndings == {<<"p", "n", "g">>, <<"j", "p", "g">>, <<"j", "p", "e", "g">>}

BulkAccepts(name) == \E e \in BulkEndings : endswith(lower(name), e)

\* An image of text: ok FALSE if Image.open cannot read it, text what the
\* model reads in it.
TextImage(ok, text) == [ok |-> ok, text |-> text]

\* processor(images=image), model.generate, decode: the OCR result of an image.
ocr_result(image) == image.text

\* process(), to the loop: the processor and the model are loaded.
bulk_load ==
    /\ reader \in Bulks
    /\ pc = "init"
    /\ processor' = loads + 1
    /\ model' = loads + 2
    /\ loads' = loads + 2
    /\ pc' = "loop"
    /\ UNCHANGED <<reader, listing, files, idx, json, dirs, calls, log, requests, classes>>
    /\ UNCHANGED classify_vars
    /\ UNCHANGED conv_vars
    /\ UNCHANGED mounted
    /\ UNCHANGED open_handles

\* Loop head, a file that is no image by its name: continue.
bulk_skip ==
    /\ reader \in Bulks
    /\ pc = "loop"
    /\ idx < Len(listing)
    /\ ~BulkAccepts(listing[idx + 1])
    /\ idx' = idx + 1
    /\ UNCHANGED <<reader, listing, files, pc, json, dirs, calls, log>>
    /\ UNCHANGED conv_vars
    /\ UNCHANGED bolt_vars
    /\ UNCHANGED classify_vars
    /\ UNCHANGED mounted
    /\ UNCHANGED open_handles

\* Loop head, an image by its name: it is opened (which raises if it is
\* none), the model reads it, and {"ocr_text": ocr_result} is written to the
\* JSON file named by the filename up to its last dot, over whatever was there.
bulk_image ==
    /\ reader \in Bulks
    /\ pc = "loop"
    /\ idx < Len(listing)
    /\ BulkAccepts(listing[idx + 1])
    /\ idx' = idx + 1
    /\ LET image_file == listing[idx + 1]
           json_file == splitext(image_file) \o ExtJson
       IN  IF ~files[image_file].ok
           THEN /\ pc' = "raised"
                /\ UNCHANGED <<json, calls, log>>
           ELSE /\ pc' = pc
                /\ json' = [n \in DOMAIN json \cup {json_file} |->
                               IF n = json_file
                               THEN [ocr_text |-> ocr_result(files[image_file])]
                               ELSE json[n]]
                /\ calls' = Append(calls, <<image_file, json_file>>)
                /\ log' = Append(log, <<image_file, json_file>>)
    /\ UNCHANGED <<reader, listing, files, dirs>>
    /\ UNCHANGED conv_vars
    /\ UNCHANGED bolt_vars
    /\ UNCHANGED classify_vars
    /\ UNCHANGED mounted
    /\ UNCHANGED open_handles

\* The listing is exhausted: process() returns.
bulk_return ==
    /\ reader \in Bulks
    /\ pc = "loop"
    /\ idx = Len(listing)
    /\ pc' = "done"
    /\ UNCHANGED <<reader, listing, files, idx, json, dirs, calls, log>>
    /\ UNCHANGED conv_vars
    /\ UNCHANGED bolt_vars
    /\ UNCHANGED classify_vars
    /\ UNCHANGED mounted
    /\ UNCHANGED open_handles

\* --------------------------------------------------------- CustomOCRDataset

ExtJpg == <<".", "j", "p", "g">>
AnnotationsJson == <<"a", "n", "n", "o", "t", "a", "t", "i", "o", "n", "s">> \o ExtJson
ImagesDir == <<"I", "m", "a", "g", "e", "s">>

\* What _load_data returns, or that it raised.
Loaded(raised, image_paths, text_labels) ==
    [raised |-> raised, image_paths |-> image_paths, text_labels |-> text_labels]

\* " ".join(text)
RECURSIVE join_space(_)
join_space(text) ==
    IF text = <<>> THEN <<>>
    ELSE IF Len(text) = 1 THEN text[1]
    ELSE text[1] \o <<" ">> \o join_space(Tail(text))

\* The coco branch from the i-th entry of annotations["images"] on: the path
\* of the image is appended, then the text of the annotation at the list
\* index item["id"], which raises IndexError if the list is shorter.
RECURSIVE load_coco(_, _, _, _)
load_coco(annotations, i, image_paths, text_labels) ==
    IF i > Len(annotations.images) THEN Loaded(FALSE, image_paths, text_labels)
    ELSE LET item == annotations.images[i]
             paths == Append(image_paths, join(input_folder, item.file_name))
         IN  IF item.id >= Len(annotations.annotations)
             THEN Loaded(TRUE, paths, text_labels)
             ELSE load_coco(annotations, i + 1, paths,
                            Append(text_labels, annotations.annotations[item.id + 1].text))

\* The icdar branch from the i-th XML file of the Annotations folder on: the
\* file is parsed, the path of the image it names is appended, then the texts
\* of its objects joined by spaces. A file that is no XML or has no filename
\* element raises.
RECURSIVE load_icdar(_, _, _, _, _)
load_icdar(fs, xml_files, i, image_paths, text_labels) ==
    IF i > Len(xml_files) THEN Loaded(FALSE, image_paths, text_labels)
    ELSE LET root == fs[xml_files[i]] IN
         IF ~root.ok \/ ~root.has_filename
         THEN Loaded(TRUE, image_paths, text_labels)
         ELSE load_icdar(fs, xml_files, i + 1,
                         Append(image_paths, join(join(input_folder, ImagesDir), root.filename)),
                         Append(text_labels, join_space(root.text)))

\* Mutant of load_synthtext: an image whose text file is missing gets no label.
RECURSIVE load_synthtext_unlabelled(_, _, _, _, _)
load_synthtext_unlabelled(fs, names, i, image_paths, text_labels) ==
    IF i > Len(names) THEN Loaded(FALSE, image_paths, text_labels)
    ELSE IF ~endswith(names[i], ExtJpg)
    THEN load_synthtext_unlabelled(fs, names, i + 1, image_paths, text_labels)
    ELSE LET paths == Append(image_paths, join(input_folder, names[i]))
             text_file == replace(names[i], ExtJpg, ExtTxt)
         IN  IF text_file \notin DOMAIN fs
             THEN load_synthtext_unlabelled(fs, names, i + 1, paths, text_labels)
             ELSE load_synthtext_unlabelled(fs, names, i + 1, paths,
                                            Append(text_labels, strip(fs[text_file].text)))

\* The synthtext branch from the i-th file of root_dir on: for a name that
\* ends in .jpg the path is appended, then the stripped content of the file
\* named with .txt for .jpg, whose opening raises if there is none.
RECURSIVE load_synthtext(_, _, _, _, _)
load_synthtext(fs, names, i, image_paths, text_labels) ==
    IF i > Len(names) THEN Loaded(FALSE, image_paths, text_labels)
    ELSE IF ~endswith(names[i], ExtJpg)
    THEN load_synthtext(fs, names, i + 1, image_paths, text_labels)
    ELSE LET paths == Append(image_paths, join(input_folder, names[i]))
             text_file == replace(names[i], ExtJpg, ExtTxt)
         IN  IF text_file \notin DOMAIN fs
             THEN Loaded(TRUE, paths, text_labels)
             ELSE load_synthtext(fs, names, i + 1, paths,
                                 Append(text_labels, strip(fs[text_file].text)))

\* CustomOCRDataset._load_data
load_data(dataset_format, fs, names) ==
    CASE dataset_format = "coco" ->
            IF AnnotationsJson \notin DOMAIN fs \/ ~fs[AnnotationsJson].ok
            THEN Loaded(TRUE, <<>>, <<>>)
            ELSE load_coco(fs[AnnotationsJson], 1, <<>>, <<>>)
      [] dataset_format = "icdar" -> load_icdar(fs, names, 1, <<>>, <<>>)
      [] dataset_format = "synthtext" -> load_synthtext(fs, names, 1, <<>>, <<>>)
      [] OTHER -> Loaded(FALSE, <<>>, <<>>)

\* CustomOCRDataset.__len__
len(ds) == Len(ds.image_paths)

\* No item has been taken from the dataset.
NoItem == [idx |-> 0, image |-> <<>>, text_label |-> <<>>, taken |-> FALSE]

\* CustomOCRDataset.__init__: the arguments are kept and _load_data is run,
\* whose exception, if it raises, ends the construction.
dataset_init ==
    /\ reader = "dataset"
    /\ pc = "init"
    /\ LET d == load_data(args.dataset_format, files, listing) IN
       IF d.raised
       THEN /\ pc' = "raised"
            /\ UNCHANGED dataset
       ELSE /\ pc' = "constructed"
            /\ dataset' = [image_paths |-> d.image_paths, text_labels |-> d.text_labels,
                           item |-> NoItem]
    /\ UNCHANGED <<reader, listing, files, idx, json, dirs, calls, log, args, saved>>
    /\ UNCHANGED bolt_vars
    /\ UNCHANGED classify_vars
    /\ UNCHANGED mounted
    /\ UNCHANGED open_handles

\* CustomOCRDataset.__getitem__(i), i from 0: the image opened from
\* image_paths[i], and text_labels[i].
dataset_getitem ==
    /\ reader = "dataset"
    /\ pc = "constructed"
    /\ \E i \in 0..(len(dataset) - 1) :
          dataset' = [dataset EXCEPT !.item =
                         [idx |-> i, image |-> dataset.image_paths[i + 1],
                          text_label |-> dataset.text_labels[i + 1], taken |-> TRUE]]
    /\ UNCHANGED <<reader, listing, files, idx, pc, json, dirs, calls, log, args, saved>>
    /\ UNCHANGED bolt_vars
    /\ UNCHANGED classify_vars
    /\ UNCHANGED mounted
    /\ UNCHANGED open_handles

Next ==
    \/ process_skip \/ process_classify \/ process_route \/ process_extract \/ process_return
    \/ gc
    \/ listen \/ ocr
    \/ predict_load \/ predict_listdir \/ predict_skip \/ predict_image \/ predict_return
    \/ convert_skip \/ convert_image \/ convert_return
    \/ bulk_load \/ bulk_skip \/ bulk_image \/ bulk_return
    \/ dataset_init \/ dataset_getitem

\* ------------------------------------------------------- the input folders

Stem == <<"a">>
OtherStem == <<"b">>
ExtB == <<".", "b">>

\* The extension a reader is written for.
MainExt(r) ==
    CASE r = "pdf" -> ExtPdf [] r = "ps" -> ExtPs [] r = "djvu" -> ExtDjvu
      [] r = "epub" -> ExtEpub [] r = "xps" -> ExtXps [] r = "cbz_cbr" -> ExtCbz
      [] r = "mobi" -> ExtMobi

\* The parts filenames are built from: the reader's extensions in both letter
\* cases, and a part that is no extension of it.
NameParts(r) ==
    CASE r = "pdf" -> {ExtPdf, <<".", "P", "D", "F">>, ExtB}
      [] r = "ps" -> {ExtPs, <<".", "P", "S">>, ExtB}
      [] r = "djvu" -> {ExtDjvu, <<".", "D", "J", "V", "U">>, ExtB}
      [] r = "epub" -> {ExtEpub, <<".", "E", "P", "U", "B">>, ExtB}
      [] r = "xps" -> {ExtXps, ExtOxps, <<".", "X", "P", "S">>, ExtB}
      [] r = "cbz_cbr" -> {ExtCbz, ExtCbr, <<".", "C", "B", "Z">>, ExtB}
      [] r = "mobi" -> {ExtMobi, <<".", "M", "O", "B", "I">>, ExtB}

RECURSIVE Flatten(_)
Flatten(ss) == IF ss = <<>> THEN <<>> ELSE Head(ss) \o Flatten(Tail(ss))

\* Filenames: the stem followed by 1..n parts.
Names(r, n) == {Stem \o Flatten(ps) : ps \in UNION {[1..k -> NameParts(r)] : k \in 1..n}}

\* The filenames of the batch folders: two the reader takes whose names
\* differ by a repeated extension, a third it takes, and one it does not take
\* (for ParsePostScript a PDF, which ps2pdf may write over).
BatchNames(r) ==
    {Stem \o MainExt(r), Stem \o MainExt(r) \o MainExt(r), OtherStem \o MainExt(r),
     Stem \o (IF r = "ps" THEN ExtPdf ELSE ExtTxt)}

\* os.listdir gives the folder's names, each once, in arbitrary order.
Listings(names, n) ==
    {l \in SeqsUpTo(names, n) : \A i, j \in 1..Len(l) : i # j => l[i] # l[j]}

Range(f) == {f[x] : x \in DOMAIN f}

\* What a file of the folder can hold: a document of the reader's format if the
\* reader takes the name (for ParsePostScript also a PDF under a .pdf name),
\* and nothing the run ever reads otherwise.
FileDocs(family, r, name, n) ==
    IF Accepts(r, name) \/ (r = "ps" /\ endswith(name, ExtPdf))
    THEN IF family = "live"
         THEN IF Head(name) = Head(OtherStem) THEN {Malformed}
              ELSE Docs(family, IF Accepts(r, name) THEN r ELSE "pdf", n) \ {Malformed}
         ELSE Docs(family, IF Accepts(r, name) THEN r ELSE "pdf", n)
    ELSE {Malformed}

BatchListings(r) == Listings(BatchNames(r), MaxFiles)
DocListings(r) == {<<Stem \o MainExt(r)>>, <<Stem \o ExtTxt>>}
NameListings(r) == {<<name>> : name \in Names(r, MaxParts)}

\* The listings of each family of input folders.
ListingsOf(family, r) ==
    CASE family = "batch" -> BatchListings(r)
      [] family = "live" -> BatchListings(r)
      [] family \in {"doc", "items"} -> DocListings(r)
      [] family = "names" -> NameListings(r)

\* The state at the call of process(): the listing is taken, the output
\* folder is empty and nothing is logged. The folder is one of a family, its
\* documents of at most n pages.
InitWith(family, n) ==
    /\ reader \in Readers
    /\ listing \in ListingsOf(family, reader)
    /\ files \in {f \in [Range(listing) ->
                          UNION {FileDocs(family, reader, name, n) : name \in Range(listing)}] :
                    \A name \in Range(listing) : f[name] \in FileDocs(family, reader, name, n)}
    /\ idx = 0
    /\ pc = "loop"
    /\ total_pages = 0
    /\ sample_pages = <<>>
    /\ text_count = 0
    /\ image_count = 0
    /\ inspected = 0
    /\ json = <<>>
    /\ dirs = <<>>
    /\ calls = <<>>
    /\ log = <<>>
    /\ model = 0
    /\ processor = 0
    /\ loads = 0
    /\ requests = <<>>
    /\ classes = <<>>
    /\ mounted = <<>>
    /\ args = <<>>
    /\ saved = <<>>
    /\ dataset = <<>>
    /\ open_handles = 0

\* A server before listen(): nothing is loaded, no request is taken.
InitApi ==
    /\ reader \in Apis
    /\ listing = <<>>
    /\ files = <<>>
    /\ idx = 0
    /\ pc = "init"
    /\ total_pages = 0
    /\ sample_pages = <<>>
    /\ text_count = 0
    /\ image_count = 0
    /\ inspected = 0
    /\ json = <<>>
    /\ dirs = <<>>
    /\ calls = <<>>
    /\ log = <<>>
    /\ model = 0
    /\ processor = 0
    /\ loads = 0
    /\ requests = [q \in 1..MaxRequests |-> Idle]
    /\ classes = <<>>
    /\ mounted = <<>>
    /\ args = <<>>
    /\ saved = <<>>
    /\ dataset = <<>>
    /\ open_handles = 0

\* The files of the predictor's sub-folder: images under a lower-case and an
\* upper-case ending, and a file that is no image by its name.
PredictNames == {Stem \o ExtPng, Stem \o <<".", "J", "P", "G">>, Stem \o ExtTxt}

\* The predictor at the call of predict(): self.classes is the empty dict of
\* __init__, the output folder is empty. A file either opens as an image or
\* does not.
InitPredict ==
    /\ reader = "predict"
    /\ listing \in Listings(PredictNames, MaxFiles)
    /\ files \in [Range(listing) -> {Malformed, [ok |-> TRUE, pages |-> <<>>]}]
    /\ idx = 0
    /\ pc = "init"
    /\ total_pages = 0
    /\ sample_pages = <<>>
    /\ text_count = 0
    /\ image_count = 0
    /\ inspected = 0
    /\ json = <<>>
    /\ dirs = <<>>
    /\ calls = <<>>
    /\ log = <<>>
    /\ model = 0
    /\ processor = 0
    /\ loads = 0
    /\ requests = <<>>
    /\ classes = <<>>
    /\ mounted = <<>>
    /\ args = <<>>
    /\ saved = <<>>
    /\ dataset = <<>>
    /\ open_handles = 0

\* The files of ConvertImage's folder: images under a lower-case and an
\* upper-case extension, a file that is no image by its name, and a file whose
\* name has no dot.
ConvertNames ==
    {Stem \o ExtPng, Stem \o <<".", "J", "P", "G">>, Stem \o ExtTxt, <<"p", "n", "g">>}

\* The output_format arguments: 'PNG' and 'JPG', in upper and in lower case.
OutputFormats == {FmtPNG, lower(FmtPNG), FmtJPG, lower(FmtJPG)}

\* What an image file can hold: nothing PIL can read, an image without and an
\* image with an alpha channel.
Pictures == {Picture(FALSE, "RGB"), Picture(TRUE, "RGB"), Picture(TRUE, "RGBA")}

\* ConvertImage at the call of process(output_format): the output folder is
\* empty.
InitConvert ==
    /\ reader = "convert_image"
    /\ listing \in Listings(ConvertNames, MaxFiles)
    /\ files \in [Range(listing) -> Pictures]
    /\ args \in [output_format : OutputFormats]
    /\ idx = 0
    /\ pc = "loop"
    /\ total_pages = 0
    /\ sample_pages = <<>>
    /\ text_count = 0
    /\ image_count = 0
    /\ inspected = 0
    /\ json = <<>>
    /\ dirs = <<>>
    /\ calls = <<>>
    /\ log = <<>>
    /\ model = 0
    /\ processor = 0
    /\ loads = 0
    /\ requests = <<>>
    /\ classes = <<>>
    /\ mounted = <<>>
    /\ saved = <<>>
    /\ dataset = <<>>
    /\ open_handles = 0

\* The files of a bulk OCR folder: two images whose names differ in the
\* extension only, an image under an upper-case extension, and a file that is
\* no image by its name.
BulkNames ==
    {Stem \o ExtPng, Stem \o <<".", "j", "p", "g">>, OtherStem \o <<".", "P", "N", "G">>,
     Stem \o ExtTxt}

\* What an image file can hold: nothing PIL can read, or an image of one of
\* two texts.
TextImages == {TextImage(FALSE, <<>>), TextImage(TRUE, <<"A">>), TextImage(TRUE, <<"B">>)}

\* A bulk OCR bolt at the call of process(): nothing is loaded, the output
\* folder is empty.
InitBulk ==
    /\ reader \in Bulks
    /\ listing \in Listings(BulkNames, MaxFiles)
    /\ files \in [Range(listing) -> TextImages]
    /\ idx = 0
    /\ pc = "init"
    /\ total_pages = 0
    /\ sample_pages = <<>>
    /\ text_count = 0
    /\ image_count = 0
    /\ inspected = 0
    /\ json = <<>>
    /\ dirs = <<>>
    /\ calls = <<>>
    /\ log = <<>>
    /\ model = 0
    /\ processor = 0
    /\ loads = 0
    /\ requests = <<>>
    /\ classes = <<>>
    /\ mounted = <<>>
    /\ args = <<>>
    /\ saved = <<>>
    /\ dataset = <<>>
    /\ open_handles = 0

\* The image and the text of the k-th entry of a dataset.
ImageName(k) == <<"i">> \o str(k) \o ExtJpg
TextOf(k) == <<"t">> \o str(k)

\* annotations.json files of the coco format: up to MaxEntries images, each
\* with the id of an annotation or one past the last, and up to MaxEntries
\* annotations.
CocoFolders ==
    {[n \in {AnnotationsJson} |->
         [ok |-> TRUE,
          images |-> [k \in 1..Len(ids) |-> [file_name |-> ImageName(k), id |-> ids[k]]],
          annotations |-> [k \in 1..m |-> [text |-> TextOf(k)]]]] :
       ids \in SeqsUpTo(0..MaxEntries, MaxEntries), m \in 0..MaxEntries}
    \cup {<<>>, [n \in {AnnotationsJson} |-> [ok |-> FALSE, images |-> <<>>, annotations |-> <<>>]]}

\* The XML files of the icdar format: one that does not parse, one without a
\* filename element, one without objects and one with two.
XmlFiles ==
    {[ok |-> FALSE, has_filename |-> FALSE, filename |-> <<>>, text |-> <<>>],
     [ok |-> TRUE, has_filename |-> FALSE, filename |-> <<>>, text |-> <<>>],
     [ok |-> TRUE, has_filename |-> TRUE, filename |-> ImageName(1), text |-> <<>>],
     [ok |-> TRUE, has_filename |-> TRUE, filename |-> ImageName(2),
      text |-> <<TextOf(1), TextOf(2)>>]}

XmlNames == {Stem \o <<".", "x", "m", "l">>, OtherStem \o <<".", "x", "m", "l">>}

\* The files of a synthtext folder: images, text files, an image without one.
SynthNames == {Stem \o ExtJpg, Stem \o ExtTxt, OtherStem \o ExtJpg, OtherStem \o ExtTxt}

\* The dataset_format arguments: the three formats, and one that is none.
DatasetFormats == {"coco", "icdar", "synthtext", "voc"}

\* CustomOCRDataset at its construction, over a folder of the format asked
\* for (any folder for a format that is none).
InitDataset ==
    /\ reader = "dataset"
    /\ args \in [dataset_format : DatasetFormats]
    /\ \/ /\ args.dataset_format \in {"coco", "voc"}
          /\ listing = <<>>
          /\ files \in CocoFolders
       \/ /\ args.dataset_format = "icdar"
          /\ listing \in Listings(XmlNames, MaxEntries)
          /\ files \in [Range(listing) -> XmlFiles]
       \/ /\ args.dataset_format = "synthtext"
          /\ listing \in Listings(SynthNames, MaxEntries)
          /\ files = [n \in Range(listing) |-> [ok |-> TRUE, text |-> <<" ">> \o n \o <<" ">>]]
    /\ idx = 0
    /\ pc = "init"
    /\ total_pages = 0
    /\ sample_pages = <<>>
    /\ text_count = 0
    /\ image_count = 0
    /\ inspected = 0
    /\ json = <<>>
    /\ dirs = <<>>
    /\ calls = <<>>
    /\ log = <<>>
    /\ model = 0
    /\ processor = 0
    /\ loads = 0
    /\ requests = <<>>
    /\ classes = <<>>
    /\ mounted = <<>>
    /\ saved = <<>>
    /\ dataset = <<>>
    /\ open_handles = 0

\* The servers, the predictor, the converter, the bulk OCR bolts and the
\* dataset, which every specification runs as well.
InitBolts == InitApi \/ InitPredict \/ InitConvert \/ InitBulk \/ InitDataset

\* Folders of up to MaxFiles files, small documents.
InitBatch == InitWith("batch", MaxBatchPages) \/ InitBolts
\* One document of up to MaxPages pages.
InitDoc == InitWith("doc", MaxPages) \/ InitBolts
\* One small document under each filename.
InitNames == InitWith("names", MaxBatchPages) \/ InitBolts
\* One EPUB book of up to MaxItems items.
InitItems == InitWith("items", MaxItems) \/ InitBolts

Spec == InitBatch /\ [][Next]_vars
SpecDoc == InitDoc /\ [][Next]_vars
SpecNames == InitNames /\ [][Next]_vars
SpecItems == InitItems /\ [][Next]_vars

\* The steps of a reader's process(): one thread runs the loop, nothing it
\* waits for, so a step that can be taken is taken.
process ==
    process_skip \/ process_classify \/ process_route \/ process_extract \/ process_return

\* Folders of up to MaxFiles files whose names tell what they hold: a file
\* called b... is malformed, any other holds a document of one page. The
\* other bolts run on a folder of at most one file, the dataset on a
\* synthtext folder.
InitLive ==
    \/ InitWith("live", MaxBatchPages)
    \/ /\ InitBolts
       /\ reader = "dataset" => args.dataset_format = "synthtext"
       /\ reader # "dataset" => Len(listing) <= 1

\* Those folders, every run of process() going on while it can.
SpecLive == InitLive /\ [][Next]_vars /\ WF_vars(process)

\* ------------------------------------------------------------- the claims

\* The document a classifying reader reads for the file called name.
DocRead(name) == OpenPath(files, ClassifyPath(reader, name))

\* The handler calls made for the file called name.
CallsFor(name) == {i \in DOMAIN calls : calls[i][1] = name}

LastCall == calls[Len(calls)]
LastLog == log[Len(log)]

\* The readers that sample pages at random.
Sampling == {"pdf", "ps", "djvu"}

\* The file the loop is at has been classified, and process() has not moved on.
AtCurrent == idx >= 1 /\ Accepts(reader, Current)

\* The file the loop is at has been routed and its handler has returned.
Handled(handler) == AtCurrent /\ log # <<>> /\ LastLog = <<Current, handler>>

\* C1: when a run of a classifying reader's process() has ended, every file of
\* the folder that the reader takes has been routed to exactly one handler,
\* exactly once. Stated here for the files that are well-formed documents
\* whose every page extracts, the files for which routing cannot fail on the
\* document's own account.
C1_EveryAcceptedFileRoutedOnce ==
    (reader \in Classifying /\ pc \in {"done", "raised"}) =>
        \A name \in Range(listing) :
            (Accepts(reader, name) /\ files[name].ok /\ AllPagesOk(files[name])) =>
                Cardinality(CallsFor(name)) = 1

\* C2: at the routing decision of ParsePdf, ParsePostScript and ParseDjvu the
\* number of pages sampled and inspected is min(3, page_count), which is at
\* most page_count, page_count being the number of pages of the document.
C2_SampleBound ==
    (reader \in Sampling /\ pc = "route") =>
        /\ total_pages = Len(DocRead(Current).pages)
        /\ Len(sample_pages) = Min(3, total_pages)
        /\ inspected = Min(3, total_pages)
        /\ inspected <= total_pages

\* C2 witness: a document of more pages than the cap, three of them inspected.
C2_Witness ==
    /\ reader \in Sampling
    /\ pc = "route"
    /\ total_pages = 4
    /\ inspected = 3

NonEmptyText(page) == page.ok /\ strip(page.text) # <<>>
EmptyText(page) == page.ok /\ strip(page.text) = <<>>
EveryPage(doc, P(_)) == \A i \in 1..Len(doc.pages) : P(doc.pages[i])

\* C3 as claimed: a document whose every page yields non-empty text is routed
\* to the text handler, one whose every page yields empty text to the image
\* handler, whatever the sample.
C3_Homogeneous ==
    (reader \in Sampling /\ AtCurrent /\ calls # <<>> /\ LastCall[1] = Current) =>
        /\ EveryPage(DocRead(Current), NonEmptyText) => LastCall[2] = "text"
        /\ EveryPage(DocRead(Current), EmptyText) => LastCall[2] = "image"

\* C3 as amended: a document of at least one page whose every page yields
\* non-empty text is routed to the text handler; a document whose every page
\* yields empty text (a document of no pages among them) is routed to the
\* image handler; whatever the sample.
C3_HomogeneousNonEmpty ==
    (reader \in Sampling /\ AtCurrent /\ calls # <<>> /\ LastCall[1] = Current) =>
        /\ (Len(DocRead(Current).pages) >= 1 /\ EveryPage(DocRead(Current), NonEmptyText))
              => LastCall[2] = "text"
        /\ EveryPage(DocRead(Current), EmptyText) => LastCall[2] = "image"

\* C3 witness: a four-page document of text pages only, three of them sampled,
\* routed to the text handler.
C3_Witness ==
    /\ reader \in Sampling
    /\ AtCurrent
    /\ calls # <<>>
    /\ LastCall = <<Current, "text">>
    /\ Len(DocRead(Current).pages) = 4
    /\ EveryPage(DocRead(Current), NonEmptyText)

\* The sampled pages of the current document that yield text, and those that
\* yield none.
SampledWith(P(_)) ==
    {i \in 1..Len(sample_pages) : P(PageAt(reader, DocRead(Current), sample_pages[i]))}

\* C4: a document is routed to the text handler if and only if more of its
\* sampled pages yield text than yield none; with as many of the one as of
\* the other it is routed to the image handler.
C4_TieBreak ==
    (reader \in Sampling /\ AtCurrent /\ calls # <<>> /\ LastCall[1] = Current) =>
        /\ LastCall[2] = "text" <=>
              Cardinality(SampledWith(NonEmptyText)) > Cardinality(SampledWith(EmptyText))
        /\ Cardinality(SampledWith(NonEmptyText)) = Cardinality(SampledWith(EmptyText))
              => LastCall[2] = "image"

\* C4 witness: a two-page document, one page of text and one of none, routed
\* to the image handler.
C4_Witness ==
    /\ reader \in Sampling
    /\ AtCurrent
    /\ calls # <<>>
    /\ LastCall = <<Current, "image">>
    /\ total_pages = 2
    /\ Cardinality(SampledWith(NonEmptyText)) = 1
    /\ Cardinality(SampledWith(EmptyText)) = 1

\* The current file is a well-formed document of no pages (no items).
ZeroPages == AtCurrent /\ files[Current].ok /\ files[Current].pages = <<>>

\* C5: a document of no pages is classified without raising, on an empty
\* sample with text_count = image_count = 0, is routed to the image handler,
\* and the image handler returns, leaving the document's directory with no
\* page file in it (and no JSON file).
C5_ZeroPages ==
    (reader \in Classifying /\ ZeroPages) =>
        /\ pc # "raised"
        /\ text_count = 0 /\ image_count = 0 /\ inspected = 0
        /\ reader \in Sampling => (total_pages = 0 /\ sample_pages = <<>>)
        /\ pc # "route" =>
              /\ calls = <<<<Current, "image">>>>
              /\ log = <<<<Current, "image">>>>
              /\ FolderName(reader, Current) \in DOMAIN dirs
              /\ dirs[FolderName(reader, Current)] = {}
              /\ json = <<>>

\* C5 witness: the image handler has returned for a PDF of no pages.
C5_Witness ==
    /\ reader = "pdf"
    /\ ZeroPages
    /\ Handled("image")
    /\ dirs[FolderName(reader, Current)] = {}

\* t is s without its leading and trailing white space.
IsTrimOf(t, s) ==
    /\ t # <<>> => (~IsSpace(t[1]) /\ ~IsSpace(t[Len(t)]))
    /\ \E a \in 0..Len(s) :
          /\ a + Len(t) <= Len(s)
          /\ SubSeq(s, a + 1, a + Len(t)) = t
          /\ \A i \in (1..a) \cup ((a + Len(t) + 1)..Len(s)) : IsSpace(s[i])

\* C6: the JSON file the text handler of ParsePdf or ParsePostScript has
\* written for a document is a list of page_count strings, the i-th the
\* trimmed text of page i, a page of no text being an empty string.
C6_TextPath ==
    (reader \in {"pdf", "ps"} /\ Handled("text")) =>
        /\ JsonName(reader, Current) \in DOMAIN json
        /\ LET doc == DocRead(Current)
               written == json[JsonName(reader, Current)]
           IN  /\ Len(written) = Len(doc.pages)
               /\ \A i \in 1..Len(doc.pages) : IsTrimOf(written[i], doc.pages[i].text)

\* C6 witness: a four-page PDF with a page of no text, routed to the text
\* handler on a sample of three pages, all four pages written.
C6_Witness ==
    /\ reader = "pdf"
    /\ Handled("text")
    /\ Len(DocRead(Current).pages) = 4
    /\ Len(sample_pages) = 3
    /\ Len(json[JsonName(reader, Current)]) = 4
    /\ \E i \in 1..4 : json[JsonName(reader, Current)][i] = <<>>

\* C7: the JSON array the text handler of ParseDjvu has written for a
\* document has one entry per page.
C7_DjvuEntryPerPage ==
    (reader = "djvu" /\ Handled("text")) =>
        /\ JsonName(reader, Current) \in DOMAIN json
        /\ Len(json[JsonName(reader, Current)]) = Len(DocRead(Current).pages)

\* C8: when the image handler of ParsePdf, ParsePostScript or ParseDjvu has
\* returned for a document of page_count pages, the document's directory
\* holds exactly page_1.png .. page_<page_count>.png.
C8_ImagePathFiles ==
    (reader \in Sampling /\ Handled("image")) =>
        /\ FolderName(reader, Current) \in DOMAIN dirs
        /\ dirs[FolderName(reader, Current)] =
              {<<"p", "a", "g", "e", "_">> \o str(n) \o <<".", "p", "n", "g">> :
                 n \in 1..Len(DocRead(Current).pages)}

\* The reader's one handler, or its image handler, has returned for the
\* current file.
ImagesWritten == AtCurrent /\ log # <<>> /\ LastLog = <<Current, "image">>

WithoutFinalExt(name) ==
    LET dots == {i \in 2..Len(name) : name[i] = "."}
    IN  IF dots = {} THEN name
        ELSE SubSeq(name, 1, (CHOOSE i \in dots : \A j \in dots : j <= i) - 1)

\* C10: the JSON file or the directory written for an input file is named by
\* the input filename without its final extension.
C10_FinalExtensionRemoved ==
    (AtCurrent /\ log # <<>> /\ LastLog[1] = Current) =>
        /\ LastLog[2] = "text" => WithoutFinalExt(Current) \o <<".", "j", "s", "o", "n">> \in DOMAIN json
        /\ LastLog[2] = "image" => WithoutFinalExt(Current) \in DOMAIN dirs

\* Where the handler of a logged document has written: a JSON file or a
\* directory of the output folder.
Target(entry) ==
    IF entry[2] = "text"
    THEN <<"json", JsonName(reader, entry[1])>>
    ELSE <<"dir", FolderName(reader, entry[1])>>

\* C11: within one run of a reader, two input files whose names without the
\* final extension differ are never written to the same JSON file or the same
\* directory of the output folder.
C11_DistinctOutputs ==
    reader \in Readers =>
        \A i, j \in DOMAIN log :
            WithoutFinalExt(log[i][1]) # WithoutFinalExt(log[j][1]) =>
                Target(log[i]) # Target(log[j])

\* C12: when a run of process() has ended, every file the reader takes that
\* is a well-formed document whose every page extracts has been processed,
\* whatever the other files of the folder are.
C12_FailureIsolation ==
    (reader \in Readers /\ pc \in {"done", "raised"}) =>
        \A name \in Range(listing) :
            (Accepts(reader, name) /\ files[name].ok /\ AllPagesOk(files[name])) =>
                \E i \in DOMAIN log : log[i][1] = name

\* C13: a handler finishes normally, and the file is logged as processed, only
\* if the file was converted and opened and every page of it was extracted or
\* rendered: no failure passes in silence.
C13_NoSilentFailure ==
    reader \in Readers =>
        \A i \in DOMAIN log :
            files[log[i][1]].ok /\ AllPagesOk(files[log[i][1]])

\* C14: a file whose name the reader does not take is never handed to a
\* handler, the document a reader classifies for a file it takes is that
\* file's own (no other file of the folder is opened in its place), and every
\* JSON file and directory of the output folder is the output of a file the
\* reader takes.
C14_NonMatchingSkipped ==
    reader \in Readers =>
        /\ \A i \in DOMAIN calls : Accepts(reader, calls[i][1])
        /\ (reader \in Classifying /\ AtCurrent /\ pc = "route") =>
              DocRead(Current) = files[Current]
        /\ \A f \in DOMAIN json :
              \E name \in Range(listing) : Accepts(reader, name) /\ f = JsonName(reader, name)
        /\ \A d \in DOMAIN dirs :
              \E name \in Range(listing) : Accepts(reader, name) /\ d = FolderName(reader, name)

\* C15: no step of a reader's run changes the input folder, and the step that
\* classifies a document, up to the routing decision, writes nothing to the
\* output folder.
C15_InputFolderUnchanged ==
    [][(reader \in Readers) =>
          (files' = files /\ (pc' = "route" => (json' = json /\ dirs' = dirs)))]_vars

\* The first ten items of the book the EPUB reader is at, and those of them
\* of one ebooklib type.
FirstItems == SubSeq(files[Current].pages, 1, Min(10, Len(files[Current].pages)))
FirstOfType(kind) == {i \in DOMAIN FirstItems : FirstItems[i].kind = kind}

TextBased ==
    /\ files[Current].ok
    /\ files[Current].pages # <<>>
    /\ \A i \in DOMAIN files[Current].pages : files[Current].pages[i].kind = "text"

\* C17: when ParseMOBI has processed a text-based book X.mobi, the output
\* folder holds X.json, a list of strings.
C17_MobiTextJson ==
    (reader = "mobi" /\ ImagesWritten /\ TextBased) =>
        /\ WithoutFinalExt(Current) \o <<".", "j", "s", "o", "n">> \in DOMAIN json
        /\ LET data == json[WithoutFinalExt(Current) \o <<".", "j", "s", "o", "n">>]
           IN  \A i \in DOMAIN data : data[i] = [k \in 1..Len(data[i]) |-> data[i][k]]

\* C18: when process() of ParsePdf, ParseEpub or ParseMOBI has returned, the
\* directory of every document that went the image path exists, and every
\* file in it has a name ending in ".png".
C18_PngDirectory ==
    (reader \in {"pdf", "epub", "mobi"} /\ pc = "done") =>
        \A i \in DOMAIN log :
            log[i][2] = "image" =>
                /\ FolderName(reader, log[i][1]) \in DOMAIN dirs
                /\ \A f \in dirs[FolderName(reader, log[i][1])] :
                      /\ Len(f) > 4
                      /\ SubSeq(f, Len(f) - 3, Len(f)) = <<".", "p", "n", "g">>

\* C18 witness: ParsePdf has returned from a folder of one image-based PDF of
\* two pages, both written.
C18_Witness ==
    /\ reader = "pdf"
    /\ pc = "done"
    /\ log = <<<<Stem \o ExtPdf, "image">>>>
    /\ Stem \in DOMAIN dirs
    /\ Cardinality(dirs[Stem]) = 2

\* C19: once listen() has loaded them, no step of any request assigns
\* self.model or self.processor.
C19_ModelLoadedOnce ==
    [][(reader \in Apis /\ pc = "serving") =>
          (model' = model /\ processor' = processor)]_vars

\* C20: an image for which the model predicts a class index that the classes
\* argument maps to a label is saved under that label, in
\* output_folder/<label>/<image_file>, and logged as classified with it.
C20_SavedUnderLabel ==
    reader = "predict" =>
        \A i \in DOMAIN log :
            LET key == PyStr(str(calls[i][2])) IN
            key \in DOMAIN classes =>
                /\ log[i][2] = classes[key]
                /\ classes[key] \in DOMAIN dirs
                /\ log[i][1] \in dirs[classes[key]]

\* C30: when a run of a reader's process() has ended, by return or by an
\* exception, every file it opened is closed: no handle is left open.
C30_HandlesClosed ==
    (reader \in Readers /\ pc \in {"done", "raised"}) => open_handles = 0

\* C22: a server that listens serves ocr at /api/v1/ocr: a POST to that path
\* reaches the handler (it is answered neither 404 nor 405), any other method
\* there is answered 405, and an answer of the handler is a JSON object with
\* the key ocr_text.
C22_ServedAtApiV1Ocr ==
    (reader \in Apis /\ pc = "serving") =>
        \A q \in DOMAIN requests :
            (requests[q].pc # "idle" /\ requests[q].url = <<"api", "v1", "ocr">>) =>
                /\ requests[q].method = "POST" => requests[q].pc \notin {"404", "405"}
                /\ requests[q].method # "POST" => requests[q].pc = "405"
                /\ requests[q].pc = "returned" => "ocr_text" \in requests[q].keys

\* The request carries a username and a password, both non-empty.
WithCredentials(req) == req.username # <<>> /\ req.password # <<>>

\* The request's Authorization header decodes to username:password.
HeaderMatches(req) ==
    /\ req.header.present
    /\ req.header.b64 = req.username \o <<":">> \o req.password

\* C28: a request with a username and a password is answered with an OCR
\* result only if its Authorization header is present and decodes to
\* username:password; if it is not, the handler ends with HTTP 401, the image
\* is not decoded and the model is not run.
C28_Authenticated ==
    reader \in Apis =>
        \A q \in DOMAIN requests :
            (requests[q].pc \notin {"idle", "404", "405"} /\ WithCredentials(requests[q])) =>
                /\ requests[q].pc = "returned" => HeaderMatches(requests[q])
                /\ ~HeaderMatches(requests[q]) =>
                      /\ requests[q].pc = "401"
                      /\ ~requests[q].decoded
                      /\ requests[q].used = <<0, 0>>

\* C24: the pages ParsePdf, ParsePostScript and ParseDjvu sample are pairwise
\* distinct and each is a page of the document: an index in [0, page_count)
\* for PDF and PostScript, a page number in 1..page_count for DJVU.
C24_SamplesDistinctInRange ==
    (reader \in Sampling /\ AtCurrent /\ sample_pages # <<>>) =>
        /\ \A i, j \in DOMAIN sample_pages : i # j => sample_pages[i] # sample_pages[j]
        /\ total_pages = Len(DocRead(Current).pages)
        /\ \A i \in DOMAIN sample_pages :
              IF reader = "djvu"
              THEN 1 <= sample_pages[i] /\ sample_pages[i] <= total_pages
              ELSE 0 <= sample_pages[i] /\ sample_pages[i] < total_pages

\* C24 witness: a DJVU document of four pages, its last page and two others
\* sampled, all pages read.
C24_Witness ==
    /\ reader = "djvu"
    /\ pc = "route"
    /\ total_pages = 4
    /\ Len(sample_pages) = 3
    /\ \E i \in DOMAIN sample_pages : sample_pages[i] = 4

\* C25 as claimed: at the routing decision of every classifying reader, the
\* EPUB reader too, text_count + image_count is the number of pages or items
\* sampled.
C25_CountsSumToSampled ==
    (reader \in Classifying /\ pc = "route") => text_count + image_count = inspected

\* C25 as amended: at the routing decision of ParsePdf, ParsePostScript and
\* ParseDjvu every sampled page has been counted as exactly one of text and
\* image, so text_count + image_count is the number of pages sampled; at that
\* of ParseEpub text_count + image_count is the number of ITEM_DOCUMENT and
\* ITEM_IMAGE items among the items inspected, which is at most their number.
C25_CountsByKind ==
    /\ (reader \in Sampling /\ pc = "route") =>
          /\ text_count + image_count = Len(sample_pages)
          /\ text_count + image_count = inspected
    /\ (reader = "epub" /\ pc = "route") =>
          /\ text_count + image_count =
                Cardinality(FirstOfType("document") \cup FirstOfType("image"))
          /\ text_count + image_count <= inspected

\* C25 witness: an EPUB book with an item that is neither a document nor an
\* image, at the routing decision, fewer items counted than inspected.
C25_Witness ==
    /\ reader = "epub"
    /\ pc = "route"
    /\ FirstOfType("other") # {}
    /\ text_count >= 1
    /\ image_count >= 1
    /\ text_count + image_count < inspected

\* The names of the files the handlers were called for, in the order of the
\* calls.
Called == [i \in DOMAIN calls |-> calls[i][1]]

\* C26: in a run of a classifying reader a handler is called only for the
\* document that was classified last and only once its classification is
\* complete; the next document is classified only once that handler has
\* returned; and no document is classified or handled twice: the loop never
\* goes back, and no handler is called again.
C26_ClassifyThenExtract ==
    /\ [](reader \in Classifying =>
            /\ \A i, j \in DOMAIN calls : i # j => Called[i] # Called[j]
            /\ pc = "route" => (AtCurrent /\ CallsFor(Current) = {}))
    /\ [][(reader \in Classifying) =>
            (/\ (calls' # calls) =>
                   (/\ pc = "route"
                    /\ pc' # "route"
                    /\ idx' = idx
                    /\ \E h \in {"text", "image"} : calls' = Append(calls, <<listing[idx], h>>))
             /\ (idx' # idx) => (pc = "loop" /\ idx' = idx + 1 /\ calls' = calls)
             /\ (pc' = "route" /\ pc # "route") => (pc = "loop" /\ idx' = idx + 1)
             /\ (pc' = "route" /\ pc = "route") => (idx' = idx /\ calls' = calls))]_vars

\* C26 witness: a run that has ended after two documents were classified and
\* handled, one after the other.
C26_Witness ==
    /\ reader \in Classifying
    /\ pc = "done"
    /\ Len(calls) = 2
    /\ Called = SubSeq(listing, 1, 2)

\* C27: every run of a reader's process() ends, by return or by an exception;
\* it goes through the listing taken at its start, which does not change, and
\* calls a handler at most once for a file of that listing and for no other
\* file, so not for a file written into the input folder during the run.
C27_Terminates ==
    /\ [](reader \in Readers =>
            /\ idx <= Len(listing)
            /\ \A i \in DOMAIN calls : Called[i] \in Range(listing)
            /\ \A i, j \in DOMAIN calls : i # j => Called[i] # Called[j])
    /\ [][(reader \in Readers) => (listing' = listing /\ idx' >= idx)]_vars
    /\ ((reader \in Readers) ~> (pc \in {"done", "raised"}))

\* C27 witness: a run of ParsePostScript has returned; the input folder holds
\* a PDF that was not listed at the start, and no handler was called for it.
C27_Witness ==
    /\ reader = "ps"
    /\ pc = "done"
    /\ idx = Len(listing)
    /\ calls # <<>>
    /\ \E name \in DOMAIN files : name \notin Range(listing) /\ CallsFor(name) = {}

\* Every file of the input folder is an image that PIL can read.
AllReadable == \A name \in DOMAIN files : files[name].ok

\* The name has a dot, and the text after its last dot, in lower case, is
\* png, jpg or jpeg.
HasImageExtension(name) ==
    /\ \E i \in DOMAIN name : name[i] = "."
    /\ split_last(lower(name)) \in {<<"p", "n", "g">>, <<"j", "p", "g">>, <<"j", "p", "e", "g">>}

\* The image format an output_format argument names.
FormatNamed(output_format) == IF upper(output_format) = FmtPNG THEN "PNG" ELSE "JPEG"

\* The files ConvertImage has written for the input file called name.
WrittenFor(name) == {i \in DOMAIN calls : calls[i][1] = name}

\* C21: when a run of ConvertImage.process(output_format) has ended, with
\* output_format 'PNG' or 'JPG' in any letter case and on a folder whose files
\* are all images that can be read, an output file has been
\* written for a file of the input folder if and only if the text after the
\* last dot of its name is png, jpg or jpeg in any letter case; the file is
\* called <name without its final extension>.<output_format in lower case>
\* and is in the format output_format names.
C21_ConvertedIffImage ==
    (reader = "convert_image" /\ pc \in {"done", "raised"} /\ AllReadable) =>
        \A name \in Range(listing) :
            /\ HasImageExtension(name) <=> WrittenFor(name) # {}
            /\ \A i \in WrittenFor(name) :
                  /\ calls[i][2] = WithoutFinalExt(name) \o <<".">> \o lower(args.output_format)
                  /\ calls[i][3] = FormatNamed(args.output_format)
                  /\ calls[i][2] \in DOMAIN saved
                  /\ saved[calls[i][2]] = FormatNamed(args.output_format)

\* C23: when a run of a bulk OCR bolt's process() has ended, on a folder whose
\* files are all images that can be read, the output folder holds for every
\* file of the input folder whose name in lower case ends in
\* png, jpg or jpeg the JSON file <name without its final extension>.json with
\* {"ocr_text": r}, r the OCR result of that file; for any other file nothing
\* was written.
C23_JsonPerImage ==
    (reader \in Bulks /\ pc \in {"done", "raised"} /\ AllReadable) =>
        \A name \in Range(listing) :
            IF \E e \in {<<"p", "n", "g">>, <<"j", "p", "g">>, <<"j", "p", "e", "g">>} :
                  endswith(lower(name), e)
            THEN /\ WithoutFinalExt(name) \o ExtJson \in DOMAIN json
                 /\ json[WithoutFinalExt(name) \o ExtJson] =
                       [ocr_text |-> ocr_result(files[name])]
            ELSE WrittenFor(name) = {}

\* The .jpg files of the listing from its i-th entry on, in its order.
RECURSIVE JpgFiles(_)
JpgFiles(i) ==
    IF i > Len(listing) THEN <<>>
    ELSE IF endswith(listing[i], ExtJpg) THEN <<listing[i]>> \o JpgFiles(i + 1)
    ELSE JpgFiles(i + 1)

\* The i-th image path and label of the dataset are those of the i-th entry
\* of its source: of annotations["images"], of the XML files, of the .jpg
\* files.
SameEntry(i) ==
    CASE args.dataset_format = "coco" ->
            LET a == files[AnnotationsJson] IN
            /\ dataset.image_paths[i] = join(input_folder, a.images[i].file_name)
            /\ dataset.text_labels[i] = a.annotations[a.images[i].id + 1].text
      [] args.dataset_format = "icdar" ->
            /\ basename(dataset.image_paths[i]) = files[listing[i]].filename
            /\ dataset.text_labels[i] = join_space(files[listing[i]].text)
      [] args.dataset_format = "synthtext" ->
            /\ dataset.image_paths[i] = join(input_folder, JpgFiles(1)[i])
            /\ <<" ">> \o dataset.text_labels[i]  \o <<" ">>
                  = files[replace(JpgFiles(1)[i], ExtJpg, ExtTxt)].text
      [] OTHER -> FALSE

\* C29: once a CustomOCRDataset is constructed, image_paths and text_labels
\* have the length __len__() returns, the i-th of each come from the same
\* entry of the source, __getitem__(i) returns the image at image_paths[i]
\* with text_labels[i], and for a dataset_format that is none of coco, icdar
\* and synthtext the dataset is empty.
C29_Paired ==
    (reader = "dataset" /\ pc = "constructed") =>
        /\ Len(dataset.image_paths) = len(dataset)
        /\ Len(dataset.text_labels) = len(dataset)
        /\ \A i \in 1..len(dataset) : SameEntry(i)
        /\ dataset.item.taken =>
              /\ dataset.item.image = dataset.image_paths[dataset.item.idx + 1]
              /\ dataset.item.text_label = dataset.text_labels[dataset.item.idx + 1]
              /\ SameEntry(dataset.item.idx + 1)
        /\ args.dataset_format \notin {"coco", "icdar", "synthtext"} => len(dataset) = 0

\* C29 witness: a coco dataset of two images, the first with the second
\* annotation and the second with the first, its second item taken.
C29_Witness ==
    /\ reader = "dataset"
    /\ pc = "constructed"
    /\ args.dataset_format = "coco"
    /\ len(dataset) = 2
    /\ dataset.text_labels = <<TextOf(2), TextOf(1)>>
    /\ dataset.item.taken
    /\ dataset.item.idx = 1

====
